---- MODULE Spec2Model ----
(***************************************************************************)
(* Model of the lasercut SVG exporter (mesh_analysis.py, packing.py,       *)
(* svg_export.py, operators.py).                                           *)
(*                                                                         *)
(* Lengths.  The program computes in float millimetres and hands the       *)
(* rectangle packer integer micrometres (int(mm * 1000)).  In this model a *)
(* millimetre value is an integer number of HALF micrometres, so that the  *)
(* truncation done by _mm_to_int is visible: _mm_to_int halves and         *)
(* truncates, _int_to_mm doubles.  Non-finite floats (the corners of the   *)
(* default AABB) are kept as tagged values, see Fin / PosInf / NegInf.     *)
(***************************************************************************)
EXTENDS Integers, Sequences, FiniteSets, TLC

VARIABLES
    \* ---- FlattenedMesh under test (specification SpecFlat) ----
    mesh,          \* FlattenedMesh.edges, a sequence of FlattenedEdge
    fm_pc,         \* "new" | "split" | "resplit" | "points" | "idle"
    per_type,      \* result of mesh.split(): type -> sequence of chains (edge indices)
    reorder,       \* the order in which the chains were concatenated again
    per_type2,     \* result of split() on the re-concatenated mesh (original indices)
    points,        \* result of list(mesh.iter_points())
    \* ---- one export run (specification Spec) ----
    options,       \* mesh_analysis.Options
    objects,       \* the objects handed to svg_export.write()
    shapes,        \* list[MeshBoundary] built by _collect_shapes
    pc,            \* position of the run inside execute()/write()/_smart_pack()
    rects,         \* rectangles given to packer.add_rect(), in micrometres
    rect_list,     \* packer.rect_list(): placed rectangles
    pack_result,   \* PackResult returned by pack()
    error,         \* exception raised by the run, "none" when none
    op_result,     \* what execute() returned: "FINISHED", "CANCELLED", "none"
    file_opened,   \* whether out_path.open("wb") was executed
    svg_groups,    \* <g> elements written by _write_shape, as (page layer, shape index)
    svg_table,     \* the shape table of the annotations layer, when it is written
    \* ---- _collect_shapes step by step (specification SpecSolidify) ----
    modifiers,     \* object.modifiers of every object: name, type, show_viewport
    modifiers0,    \* object.modifiers of every object when the export started
    modifier_state,  \* the dict _solidify_disable() returned for the current object
    \* ---- one BMesh (specifications SpecKerf and SpecTrace) ----
    bm,            \* the BMesh: its edges (verts, seam, smooth) and its faces
    co,            \* v.co of every vertex, in model units
    \* ---- add_kerf (specification SpecKerf) ----
    kerf_width,    \* options.laser_width / 2, in model units
    co0,           \* v.co of every vertex when add_kerf() was called
    edge_kerfs,    \* edge index -> list of tangents
    vtx_kerf_directions,  \* vertex index -> summed, later clamped, direction
    kf_pc,         \* position inside add_kerf()
    \* ---- AABB.join (specification SpecAABB) ----
    aabb_in,       \* the two boxes A and B
    aabb_out,      \* A after A.join(B), and the box of the corner points
    \* ---- _boundary_polygons_from_bmesh, flatten_mesh (specification SpecTrace) ----
    export_edge_indices,
    start_edge_indices,
    annotated_mesh,  \* the AnnotatedMesh being traced: directed edges
    yielded,       \* the AnnotatedMesh values yielded so far
    visit,         \* vertex the walk stands on
    v0,            \* vertex the walk began at
    tr_pc,         \* position inside _boundary_polygons_from_bmesh()
    polygons,      \* MeshBoundary.polygons made from the yielded meshes
    svg_elements   \* element _write_shape() makes of every chain

flatVars   == <<mesh, fm_pc, per_type, reorder, per_type2, points>>
exportVars == <<options, objects, shapes, pc, rects, rect_list,
                pack_result, error, op_result, file_opened, svg_groups, svg_table,
                modifiers, modifiers0, modifier_state>>
kerfVars   == <<kerf_width, co0, edge_kerfs, vtx_kerf_directions, kf_pc>>
aabbVars   == <<aabb_in, aabb_out>>
traceVars  == <<export_edge_indices, start_edge_indices, annotated_mesh, yielded,
                visit, v0, tr_pc, polygons, svg_elements>>
meshVars   == <<bm, co, kerfVars, aabbVars, traceVars>>
vars       == <<flatVars, exportVars, meshVars>>

\* Values of the variables a specification does not use.
KerfIdle ==
    /\ kerf_width = 0 /\ co0 = <<>>
    /\ edge_kerfs = <<>> /\ vtx_kerf_directions = <<>>
    /\ kf_pc = "idle"

AABBIdle == aabb_in = <<>> /\ aabb_out = <<>>

TraceIdle ==
    /\ export_edge_indices = {} /\ start_edge_indices = {}
    /\ annotated_mesh = <<>> /\ yielded = <<>>
    /\ visit = 0 /\ v0 = 0 /\ tr_pc = "idle"
    /\ polygons = <<>> /\ svg_elements = <<>>

NoBMesh == bm = [edges |-> <<>>, faces |-> <<>>] /\ co = <<>>

MeshIdle == NoBMesh /\ KerfIdle /\ AABBIdle /\ TraceIdle

----------------------------------------------------------------------------
(* Sizes of the model. *)
\* The longest FlattenedMesh drawn in SpecFlat.
MaxEdges == 3

\* The most objects in one export run.
MaxObjects == 2

----------------------------------------------------------------------------
(* Python floats: finite values and the infinities of the default AABB. *)
Fin(n)  == [k |-> 0, v |-> n]
PosInf  == [k |-> 1, v |-> 0]
NegInf  == [k |-> -1, v |-> 0]
NaN     == [k |-> 2, v |-> 0]

FLt(a, b) ==
    /\ a.k # 2 /\ b.k # 2
    /\ \/ a.k < b.k
       \/ a.k = 0 /\ b.k = 0 /\ a.v < b.v

\* min(a, b) and max(a, b) of Python: the first argument unless the second beats it.
FMin(a, b) == IF FLt(b, a) THEN b ELSE a
FMax(a, b) == IF FLt(a, b) THEN b ELSE a

FNeg(a) == IF a.k = 2 THEN NaN ELSE [k |-> -a.k, v |-> -a.v]

FAdd(a, b) ==
    IF a.k = 2 \/ b.k = 2 THEN NaN
    ELSE IF a.k = 0 /\ b.k = 0 THEN Fin(a.v + b.v)
    ELSE IF a.k = 0 THEN b
    ELSE IF b.k = 0 THEN a
    ELSE IF a.k = b.k THEN a
    ELSE NaN

FSub(a, b) == FAdd(a, FNeg(b))

\* int(x) truncates toward zero.
TruncDiv(n, d) == IF n >= 0 THEN n \div d ELSE -((-n) \div d)

\* min() and max() of a set of whole numbers.
SetMin(S) == CHOOSE m \in S : \A o \in S : m <= o
SetMax(S) == CHOOSE m \in S : \A o \in S : m >= o

----------------------------------------------------------------------------
(* mesh_analysis.MeshType, FlattenedEdge, FlattenedMesh *)
MeshType == {"CUT", "ENGRAVE"}

FlattenedEdge(p0, p1, t) == [verts |-> <<p0, p1>>, edgeType |-> t]

\* follows() with the two ends confused: self ends where edge starts.
follows_reversed(self, edge) ==
    edge.edgeType = self.edgeType /\ edge.verts[1] = self.verts[2]

\* follows() without the comparison of the points.
follows_same_type(self, edge) == edge.edgeType = self.edgeType

\* self.follows(edge): self starts where edge ends, both of one type.
follows(self, edge) ==
    edge.edgeType = self.edgeType /\ edge.verts[2] = self.verts[1]

\* is_closed looking at the first edge only.
is_closed_first_edge(edges) ==
    IF edges = <<>> THEN FALSE
    ELSE edges[1].verts[1] = edges[1].verts[2]

is_closed(edges) ==
    IF edges = <<>> THEN FALSE
    ELSE edges[1].verts[1] = edges[Len(edges)].verts[2]

RECURSIVE iter_points_upto(_, _)
iter_points_upto(edges, n) ==
    IF n = 0 THEN <<>>
    ELSE LET e == edges[n]
             \* last_point is None before the first edge
             differs == IF n = 1 THEN TRUE ELSE e.verts[1] # edges[n - 1].verts[2]
         IN  iter_points_upto(edges, n - 1)
                 \o (IF differs THEN <<e.verts[1]>> ELSE <<>>)
                 \o <<e.verts[2]>>

iter_points_both(edges) ==
    LET RECURSIVE both(_)
        both(n) == IF n = 0 THEN <<>>
                   ELSE both(n - 1) \o <<edges[n].verts[1], edges[n].verts[2]>>
    IN  both(Len(edges))

iter_points(edges) == iter_points_upto(edges, Len(edges))

\* Position of chain a before chain b in sorted(meshes_for_type, key=-len):
\* longer chains first, equally long chains in list order (the sort is stable).
sorted_before(chs, a, b) ==
    \/ Len(chs[a]) > Len(chs[b])
    \/ Len(chs[a]) = Len(chs[b]) /\ a < b

\* The search of split() comparing with the first edge of a chain, not its last.
find_mesh_first_edge(edges, chs, i) ==
    LET stops(j) == \/ chs[j] = <<>>
                    \/ follows(edges[i], edges[chs[j][1]])
        M == {j \in 1..Len(chs) : stops(j)}
    IN  IF M = {} THEN 0
        ELSE CHOOSE j \in M : \A o \in M \ {j} : sorted_before(chs, j, o)

\* The chain the for-loop of split() breaks on: the first one, in sorted order,
\* that is empty or whose last edge the new edge follows; 0 when the loop runs
\* to its else branch.
find_mesh(edges, chs, i) ==
    LET stops(j) == \/ chs[j] = <<>>
                    \/ follows(edges[i], edges[chs[j][Len(chs[j])]])
        M == {j \in 1..Len(chs) : stops(j)}
    IN  IF M = {} THEN 0
        ELSE CHOOSE j \in M : \A o \in M \ {j} : sorted_before(chs, j, o)

\* One iteration of the loop of split(): edge i joins a chain or opens one.
\* Chains are kept as sequences of indices into edges.
split_step(pt, edges, i) ==
    LET t == edges[i].edgeType
        j == find_mesh(edges, pt[t], i)
    IN  IF j = 0 THEN [pt EXCEPT ![t] = Append(@, <<i>>)]
        ELSE [pt EXCEPT ![t][j] = Append(@, i)]

RECURSIVE split_upto(_, _)
split_upto(edges, n) ==
    IF n = 0 THEN [t \in MeshType |-> <<>>]
    ELSE split_step(split_upto(edges, n - 1), edges, n)

\* FlattenedMesh.split(); a type without edges has no key in the dict, here <<>>.
split(edges) == split_upto(edges, Len(edges))

\* The chains of a split as edge lists (FlattenedMesh objects).
chain_edges(edges, chain) == [n \in 1..Len(chain) |-> edges[chain[n]]]

----------------------------------------------------------------------------
(* mesh_analysis.AABB; a point is <<x, y>> *)
AABB(min_x, min_y, max_x, max_y) ==
    [min_x |-> min_x, min_y |-> min_y, max_x |-> max_x, max_y |-> max_y]

AABB_default == AABB(PosInf, PosInf, NegInf, NegInf)

AABB_bool(a)   == FLt(a.min_x, a.max_x) /\ FLt(a.min_y, a.max_y)
AABB_width(a)  == FSub(a.max_x, a.min_x)
AABB_height(a) == FSub(a.max_y, a.min_y)
AABB_min_point(a) == <<a.min_x, a.min_y>>

AABB_extend(a, point) ==
    AABB(FMin(a.min_x, point[1]), FMin(a.min_y, point[2]),
         FMax(a.max_x, point[1]), FMax(a.max_y, point[2]))

\* A join that takes the other box over whenever this one is the default box
\* and otherwise keeps this one: right only when the other box lies inside.
AABB_join_if_default(a, b) ==
    IF a = AABB(PosInf, PosInf, NegInf, NegInf) THEN b ELSE a

AABB_join(a, b) ==
    AABB(FMin(a.min_x, b.min_x), FMin(a.min_y, b.min_y),
         FMax(a.max_x, b.max_x), FMax(a.max_y, b.max_y))

\* AABB.boundary(): the four sides (minmin, maxmin), (maxmin, maxmax),
\* (maxmax, minmax), (minmax, minmin).
AABB_boundary(a) ==
    LET minmin == <<a.min_x, a.min_y>>
        maxmin == <<a.max_x, a.min_y>>
        maxmax == <<a.max_x, a.max_y>>
        minmax == <<a.min_x, a.max_y>>
    IN  << <<minmin, maxmin>>, <<maxmin, maxmax>>, <<maxmax, minmax>>, <<minmax, minmin>> >>

\* extend() called with the first n points of a list, in order.
RECURSIVE AABB_extend_upto(_, _, _)
AABB_extend_upto(a, pts, n) ==
    IF n = 0 THEN a ELSE AABB_extend(AABB_extend_upto(a, pts, n - 1), pts[n])

\* FlattenedMesh.aabb(): a fresh AABB extended by both ends of every edge.
RECURSIVE FlattenedMesh_aabb_upto(_, _)
FlattenedMesh_aabb_upto(edges, n) ==
    IF n = 0 THEN AABB_default
    ELSE AABB_extend(
             AABB_extend(FlattenedMesh_aabb_upto(edges, n - 1),
                         <<Fin(edges[n].verts[1][1]), Fin(edges[n].verts[1][2])>>),
             <<Fin(edges[n].verts[2][1]), Fin(edges[n].verts[2][2])>>)

FlattenedMesh_aabb(edges) == FlattenedMesh_aabb_upto(edges, Len(edges))

\* FlattenedEdge.translate_self over every edge; only called with a finite
\* offset when there are edges at all.
translate_self(edges, off) ==
    [n \in 1..Len(edges) |->
        [edges[n] EXCEPT !.verts =
            << <<@[1][1] + off[1], @[1][2] + off[2]>>,
               <<@[2][1] + off[1], @[2][2] + off[2]>> >>]]

\* FlattenedMesh.move_to_origin(): with no edges the loop of translate_self
\* has nothing to move (the offset is then (-inf, -inf)).
move_to_origin(edges) ==
    IF edges = <<>> THEN edges
    ELSE LET a == FlattenedMesh_aabb(edges)
         IN  translate_self(edges, <<-(a.min_x.v), -(a.min_y.v)>>)


----------------------------------------------------------------------------
(* mesh_analysis.Options *)
page_offset(opts, page_index) == page_index * (opts.material_width + opts.margin)

----------------------------------------------------------------------------
(* mesh_analysis.MeshBoundary and flatten_mesh *)

\* A MeshBoundary that starts on no page at all.
MeshBoundary_unpaged(name) ==
    [name |-> name,
     polygons |-> [t \in MeshType |-> <<>>],
     aabb_cache |-> [cached |-> FALSE, box |-> AABB_default],
     rotation |-> 0, translation |-> <<0, 0>>, page_num |-> -1]

\* MeshBoundary(name): no polygons, no cached AABB, rotation 0, translation
\* (0, 0), page_num 0.
MeshBoundary(name) ==
    [name |-> name,
     polygons |-> [t \in MeshType |-> <<>>],
     aabb_cache |-> [cached |-> FALSE, box |-> AABB_default],
     rotation |-> 0, translation |-> <<0, 0>>, page_num |-> 0]

\* The boxes of the polygons of one type joined into a.
RECURSIVE join_polys(_, _, _)
join_polys(a, polys, n) ==
    IF n = 0 THEN a
    ELSE AABB_join(join_polys(a, polys, n - 1), FlattenedMesh_aabb(polys[n]))

\* MeshBoundary.aabb: the cached box, else the join of the boxes of all
\* polygons of all types.
MeshBoundary_aabb(shape) ==
    IF shape.aabb_cache.cached THEN shape.aabb_cache.box
    ELSE join_polys(join_polys(AABB_default, shape.polygons["CUT"],
                               Len(shape.polygons["CUT"])),
                    shape.polygons["ENGRAVE"], Len(shape.polygons["ENGRAVE"]))

\* The shape after its aabb property was read: the box is cached.
aabb_cached(shape) ==
    [shape EXCEPT !.aabb_cache = [cached |-> TRUE, box |-> MeshBoundary_aabb(shape)]]

\* flatten_mesh(object), from the combined flat mesh on: move_to_origin(),
\* split(), MeshBoundary.  object.flat is what tracing and flattening the
\* object's mesh yields.
flatten_mesh(object) ==
    LET moved == move_to_origin(object.flat)
        sp    == split(moved)
    IN  [MeshBoundary(object.name) EXCEPT
            !.polygons = [t \in MeshType |->
                            [j \in 1..Len(sp[t]) |-> chain_edges(moved, sp[t][j])]]]

\* transform_into() turning the shape without moving it up by its width.
transform_into_no_shift(shape, position, size) ==
    LET aabb == MeshBoundary_aabb(shape)
        same == (size[1] > size[2]) = FLt(AABB_height(aabb), AABB_width(aabb))
    IN  [aabb_cached(shape) EXCEPT
            !.translation = <<position[1] - aabb.min_x.v, position[2] - aabb.min_y.v>>,
            !.rotation = IF same THEN 0 ELSE 90]

\* transform_into() moving the points of the polygons by the translation as
\* well.
transform_into_moving_polygons(shape, position, size) ==
    LET aabb == MeshBoundary_aabb(shape)
        tx   == position[1] - aabb.min_x.v
        ty   == position[2] - aabb.min_y.v
        same == (size[1] > size[2]) = FLt(AABB_height(aabb), AABB_width(aabb))
    IN  [aabb_cached(shape) EXCEPT
            !.translation = IF same THEN <<tx, ty>> ELSE <<tx, ty + AABB_width(aabb).v>>,
            !.rotation = IF same THEN 0 ELSE 90,
            !.polygons = [t \in MeshType |->
                            [j \in 1..Len(shape.polygons[t]) |->
                                translate_self(shape.polygons[t][j], <<tx, ty>>)]]]

\* MeshBoundary.transform_into(position, size); only reached with a finite box.
transform_into(shape, position, size) ==
    LET aabb == MeshBoundary_aabb(shape)
        tx   == position[1] - aabb.min_x.v
        ty   == position[2] - aabb.min_y.v
        same == (size[1] > size[2]) = FLt(AABB_height(aabb), AABB_width(aabb))
    IN  [aabb_cached(shape) EXCEPT
            !.translation = IF same THEN <<tx, ty>> ELSE <<tx, ty + AABB_width(aabb).v>>,
            !.rotation = IF same THEN 0 ELSE 90]

----------------------------------------------------------------------------
(* packing.py *)

\* _mm_to_int() without its finiteness test.
_mm_to_int_unchecked(mm) == [raised |-> FALSE, value |-> TruncDiv(mm.v, 2)]

\* _mm_to_int(mm): ValueError unless -inf < mm < inf, else int(mm * 1000).
\* A millimetre value counts half micrometres, so int() drops an odd half.
_mm_to_int(mm) ==
    IF ~(FLt(NegInf, mm) /\ FLt(mm, PosInf)) THEN [raised |-> TRUE, value |-> 0]
    ELSE [raised |-> FALSE, value |-> TruncDiv(mm.v, 2)]

\* _int_to_mm(int_) = int_ / 1000.0
_int_to_mm(int_) == int_ * 2

\* PackResult.__bool__ answering that the result is valid whatever it holds.
PackResult_bool_always(r) == TRUE

\* PackResult.__bool__
PackResult_bool(r) == AABB_bool(r.canvas_bounds)

\* The rectangle packer (rectpack, loaded by _load_rectpack) by its contract:
\* a rectangle that fits an empty bin, as given or, when rotation is allowed,
\* with its sides swapped, is placed; it lies inside its bin and overlaps
\* no other rectangle of the bin; the bins in use are numbered from 0 without
\* a gap; a rectangle that fits no bin is left out of rect_list().
rect_overlap(a, b) ==
    /\ a.bin = b.bin
    /\ a.x < b.x + b.w /\ b.x < a.x + a.w
    /\ a.y < b.y + b.h /\ b.y < a.y + a.h

\* The packer never turning a rectangle, whatever its rotation setting.
rect_places_as_given(rs, bin_w, bin_h, rotation, n, placed) ==
    LET fit  == {wh \in {<<rs[n].w, rs[n].h>>} : wh[1] <= bin_w /\ wh[2] <= bin_h}
        cand == UNION {{[bin |-> b, x |-> x, y |-> y, w |-> wh[1], h |-> wh[2], rid |-> n] :
                            b \in 0..(Len(rs) - 1),
                            x \in 0..(bin_w - wh[1]),
                            y \in 0..(bin_h - wh[2])} : wh \in fit}
    IN  {r \in cand : \A m \in 1..Len(placed) : ~rect_overlap(r, placed[m])}

rect_places(rs, bin_w, bin_h, rotation, n, placed) ==
    LET sides == {<<rs[n].w, rs[n].h>>}
                    \cup (IF rotation THEN {<<rs[n].h, rs[n].w>>} ELSE {})
        fit   == {wh \in sides : wh[1] <= bin_w /\ wh[2] <= bin_h}
        cand  == UNION {{[bin |-> b, x |-> x, y |-> y, w |-> wh[1], h |-> wh[2], rid |-> n] :
                            b \in 0..(Len(rs) - 1),
                            x \in 0..(bin_w - wh[1]),
                            y \in 0..(bin_h - wh[2])} : wh \in fit}
    IN  {r \in cand : \A m \in 1..Len(placed) : ~rect_overlap(r, placed[m])}

RECURSIVE packer_layouts(_, _, _, _, _)
packer_layouts(rs, bin_w, bin_h, rotation, n) ==
    IF n = 0 THEN {<<>>}
    ELSE UNION {
            LET pl == rect_places(rs, bin_w, bin_h, rotation, n, placed)
            IN  IF pl = {} THEN {placed} ELSE {Append(placed, r) : r \in pl}
            : placed \in packer_layouts(rs, bin_w, bin_h, rotation, n - 1)}

\* packer.pack() followed by packer.rect_list(): every list the contract allows.
packer_rect_lists(rs, bin_w, bin_h, rotation) ==
    {l \in packer_layouts(rs, bin_w, bin_h, rotation, Len(rs)) :
        \A m \in 1..Len(l) : \A b \in 0..(l[m].bin - 1) :
            \E o \in 1..Len(l) : l[o].bin = b}

\* The second loop of _smart_pack() without its last statement: bin_idx_max
\* stays what it was.
apply_rect_first_page(st, opts, rect) ==
    LET padded_position == <<_int_to_mm(rect.x) + page_offset(opts, rect.bin),
                             _int_to_mm(rect.y)>>
        padded_size == <<_int_to_mm(rect.w), _int_to_mm(rect.h)>>
        position == <<padded_position[1] + opts.margin, padded_position[2] + opts.margin>>
        size     == <<padded_size[1] - 2 * opts.margin, padded_size[2] - 2 * opts.margin>>
        far      == <<padded_position[1] + padded_size[1], padded_position[2] + padded_size[2]>>
    IN  [shapes |-> [st.shapes EXCEPT ![rect.rid] =
                        [transform_into(@, position, size) EXCEPT !.page_num = rect.bin]],
         packed_bounds |->
            AABB_extend(AABB_extend(st.packed_bounds,
                                    <<Fin(padded_position[1]), Fin(padded_position[2])>>),
                        <<Fin(far[1]), Fin(far[2])>>),
         covered_area |-> st.covered_area + padded_size[1] * padded_size[2],
         bin_idx_max |-> st.bin_idx_max]

\* One iteration of the second loop of _smart_pack(): the shape of the
\* rectangle is moved into place and the totals are updated.
\* st = [shapes, packed_bounds, covered_area, bin_idx_max]
apply_rect(st, opts, rect) ==
    LET padded_position == <<_int_to_mm(rect.x) + page_offset(opts, rect.bin),
                             _int_to_mm(rect.y)>>
        padded_size == <<_int_to_mm(rect.w), _int_to_mm(rect.h)>>
        position == <<padded_position[1] + opts.margin, padded_position[2] + opts.margin>>
        size     == <<padded_size[1] - 2 * opts.margin, padded_size[2] - 2 * opts.margin>>
        far      == <<padded_position[1] + padded_size[1], padded_position[2] + padded_size[2]>>
    IN  [shapes |-> [st.shapes EXCEPT ![rect.rid] =
                        [transform_into(@, position, size) EXCEPT !.page_num = rect.bin]],
         packed_bounds |->
            AABB_extend(AABB_extend(st.packed_bounds,
                                    <<Fin(padded_position[1]), Fin(padded_position[2])>>),
                        <<Fin(far[1]), Fin(far[2])>>),
         covered_area |-> st.covered_area + padded_size[1] * padded_size[2],
         bin_idx_max |-> IF rect.bin > st.bin_idx_max THEN rect.bin ELSE st.bin_idx_max]

RECURSIVE apply_rects(_, _, _, _)
apply_rects(st, opts, rl, n) ==
    IF n = 0 THEN st
    ELSE apply_rect(apply_rects(st, opts, rl, n - 1), opts, rl[n])

----------------------------------------------------------------------------
(* Specification SpecFlat: FlattenedMesh.split(), iter_points() and          *)
(* is_closed applied to every edge list of at most MaxEdges edges over a     *)
(* triangle of points.                                                       *)
FlatPoints == {<<0, 0>>, <<1, 0>>, <<1, 1>>}
FlatEdges  == {FlattenedEdge(p, q, t) : p \in FlatPoints, q \in FlatPoints, t \in MeshType}
FlatMeshes == UNION {[1..n -> FlatEdges] : n \in 0..MaxEdges}

NoSplit == [t \in MeshType |-> <<>>]

solidifyVars == <<modifiers, modifiers0, modifier_state>>

\* Objects without modifiers: _solidify_disabled() has nothing to switch.
SolidifyIdle == modifiers = <<>> /\ modifiers0 = <<>> /\ modifier_state = <<>>

\* No annotations layer in the document.
NoTable == [written |-> FALSE, rows |-> <<>>]

\* Export-run variables are not used by SpecFlat and keep these values.
ExportIdle ==
    /\ options = [material_width |-> 0, material_length |-> 0, margin |-> 0,
                  shape_padding |-> 0, pack_may_rotate |-> FALSE]
    /\ objects = <<>> /\ shapes = <<>> /\ pc = "idle"
    /\ rects = <<>> /\ rect_list = <<>>
    /\ pack_result = [canvas_bounds |-> AABB_default, covered_area |-> 0, num_pages |-> 0]
    /\ error = "none" /\ op_result = "none" /\ file_opened = FALSE
    /\ svg_groups = <<>> /\ svg_table = NoTable
    /\ SolidifyIdle

\* split(), iter_points() and is_closed only compare points and types for
\* equality, so renaming the points or swapping the two types changes nothing:
\* the first edge is taken to be a CUT edge leaving <<0, 0>>.
InitFlat ==
    /\ mesh \in FlatMeshes
    /\ mesh # <<>> => mesh[1].edgeType = "CUT" /\ mesh[1].verts[1] = <<0, 0>>
    /\ fm_pc = "new"
    /\ per_type = NoSplit /\ per_type2 = NoSplit
    /\ reorder = <<>> /\ points = <<>>
    /\ ExportIdle
    /\ MeshIdle

\* per_type = mesh.split()
FlatSplit ==
    /\ fm_pc = "new"
    /\ per_type' = split(mesh)
    /\ fm_pc' = "split"
    /\ UNCHANGED <<mesh, reorder, per_type2, points, exportVars, meshVars>>

\* The chains chs concatenated in the order ord (a permutation of their positions).
RECURSIVE concat_chains(_, _, _)
concat_chains(chs, ord, n) ==
    IF n = 0 THEN <<>> ELSE concat_chains(chs, ord, n - 1) \o chs[ord[n]]

\* The chains of every type concatenated again, the chains of a type in any
\* order, and the result split once more.  per_type2 names the edges by their
\* index in the original mesh.
FlatResplit ==
    /\ fm_pc = "split"
    /\ \E oc \in Permutations(1..Len(per_type["CUT"])),
          oe \in Permutations(1..Len(per_type["ENGRAVE"])) :
          LET perm  == concat_chains(per_type["CUT"], oc, Len(per_type["CUT"]))
                       \o concat_chains(per_type["ENGRAVE"], oe, Len(per_type["ENGRAVE"]))
              mesh2 == [n \in 1..Len(perm) |-> mesh[perm[n]]]
              again == split(mesh2)
          IN  /\ reorder' = perm
              /\ per_type2' = [t \in MeshType |->
                                 [j \in 1..Len(again[t]) |->
                                    [n \in 1..Len(again[t][j]) |-> perm[again[t][j][n]]]]]
    /\ fm_pc' = "resplit"
    /\ UNCHANGED <<mesh, per_type, points, exportVars, meshVars>>

\* points = list(mesh.iter_points())
FlatIterPoints ==
    /\ fm_pc = "new"
    /\ points' = iter_points(mesh)
    /\ fm_pc' = "points"
    /\ UNCHANGED <<mesh, per_type, reorder, per_type2, exportVars, meshVars>>

NextFlat == FlatSplit \/ FlatResplit \/ FlatIterPoints

SpecFlat == InitFlat /\ [][NextFlat]_vars


----------------------------------------------------------------------------
(* Specification Spec: one run of the export operator,                       *)
(* EXPORT_MESH_OT_lasercut_svg_export.execute() -> svg_export.write() ->     *)
(* _collect_shapes(), packing.pack(), document assembly, file output.        *)

\* A closed outline of CUT edges around a w x h rectangle whose lower left
\* corner is at <<1, 1>>, anticlockwise.
RectOutline(w, h) ==
    << FlattenedEdge(<<1, 1>>, <<1 + w, 1>>, "CUT"),
       FlattenedEdge(<<1 + w, 1>>, <<1 + w, 1 + h>>, "CUT"),
       FlattenedEdge(<<1 + w, 1 + h>>, <<1, 1 + h>>, "CUT"),
       FlattenedEdge(<<1, 1 + h>>, <<1, 1>>, "CUT") >>

\* What an object can be to the run: a mesh whose kerf tangent is not of unit
\* length (add_kerf raises MeshAnalysisError), a mesh without export edges
\* (nothing is traced), or a mesh whose traced and flattened boundary is a
\* rectangle of 1, 1.5 or 2 micrometres by 1 or 2 micrometres.
ObjectKinds ==
    {[flat |-> <<>>, kerf_error |-> TRUE], [flat |-> <<>>, kerf_error |-> FALSE]}
    \cup {[flat |-> RectOutline(w, h), kerf_error |-> FALSE] : w \in {2, 3, 4}, h \in {2, 4}}

\* The settings read by the modelled code, in half micrometres; the scene
\* properties allow every value of 0 and more.
\* options.laser_width, in half micrometres.
LaserWidths == {0, 2}

OptionValues ==
    [material_width : {4, 6}, material_length : {6}, margin : {0, 2},
     shape_padding : {0, 2}, pack_may_rotate : BOOLEAN]

\* FlattenedMesh variables are not used by Spec and keep these values.
FlatIdle ==
    /\ mesh = <<>> /\ fm_pc = "idle"
    /\ per_type = NoSplit /\ per_type2 = NoSplit
    /\ reorder = <<>> /\ points = <<>>

Init ==
    /\ options \in OptionValues
    /\ \E n \in 0..MaxObjects : \E kinds \in [1..n -> ObjectKinds] :
          objects = [i \in 1..n |->
                        [name |-> i, flat |-> kinds[i].flat,
                         kerf_error |-> kinds[i].kerf_error]]
    /\ shapes = <<>> /\ pc = "start"
    /\ rects = <<>> /\ rect_list = <<>>
    /\ pack_result = [canvas_bounds |-> AABB_default, covered_area |-> 0, num_pages |-> 0]
    /\ error = "none" /\ op_result = "none" /\ file_opened = FALSE
    /\ svg_groups = <<>> /\ svg_table = NoTable
    /\ SolidifyIdle
    /\ FlatIdle
    /\ MeshIdle

\* An exception nobody catches leaves execute(); only NoShapes is caught there.
Raise(exc) ==
    /\ error' = exc
    /\ op_result' = IF exc = "NoShapes" THEN "CANCELLED" ELSE "raised"
    /\ pc' = "done"

\* shapes = _collect_shapes(depsgraph, objects, options): flatten_mesh() for
\* every object in turn; the MeshAnalysisError of add_kerf ends the run at the
\* first object that has it.
CollectShapes ==
    /\ pc = "start"
    /\ LET bad == {i \in 1..Len(objects) : objects[i].kerf_error}
       IN  IF bad = {}
           THEN /\ shapes' = [i \in 1..Len(objects) |-> flatten_mesh(objects[i])]
                /\ pc' = "collected"
                /\ UNCHANGED <<error, op_result>>
           ELSE LET first == CHOOSE i \in bad : \A o \in bad : i <= o
                IN  /\ shapes' = [i \in 1..(first - 1) |-> flatten_mesh(objects[i])]
                    /\ Raise("MeshAnalysisError")
    /\ UNCHANGED <<options, objects, rects, rect_list, pack_result,
                   file_opened, svg_groups, svg_table, solidifyVars, flatVars, meshVars>>

\* The padded rectangle of a shape, as _smart_pack() hands it to add_rect().
padded_rect(shape, opts) ==
    LET aabb == MeshBoundary_aabb(shape)
        w_padded == FAdd(AABB_width(aabb), Fin(2 * opts.shape_padding))
        h_padded == FAdd(AABB_height(aabb), Fin(2 * opts.shape_padding))
    IN  [w |-> _mm_to_int(w_padded), h |-> _mm_to_int(h_padded)]

\* _smart_pack() up to packer.pack(): the bin, then add_rect() for every
\* shape in turn; _mm_to_int() raises ValueError at the first shape whose
\* padded width or height is not finite.  Reading shape.aabb caches the box.
SmartPackAddRects ==
    /\ pc = "collected"
    /\ LET pr(i) == padded_rect(shapes[i], options)
           bad   == {i \in 1..Len(shapes) : pr(i).w.raised \/ pr(i).h.raised}
           upto  == IF bad = {} THEN Len(shapes)
                    ELSE CHOOSE i \in bad : \A o \in bad : i <= o
       IN  /\ shapes' = [i \in 1..Len(shapes) |->
                            IF i <= upto THEN aabb_cached(shapes[i]) ELSE shapes[i]]
           /\ IF bad = {}
              THEN /\ rects' = [i \in 1..Len(shapes) |-> [w |-> pr(i).w.value, h |-> pr(i).h.value]]
                   /\ pc' = "rects_added"
                   /\ UNCHANGED <<error, op_result>>
              ELSE /\ rects' = [i \in 1..(upto - 1) |-> [w |-> pr(i).w.value, h |-> pr(i).h.value]]
                   /\ Raise("ValueError")
    /\ UNCHANGED <<options, objects, rect_list, pack_result,
                   file_opened, svg_groups, svg_table, solidifyVars, flatVars, meshVars>>

\* packer.pack(); the bin is the material without its margins.
PackerPack ==
    /\ pc = "rects_added"
    /\ LET pack_width  == options.material_width - 2 * options.margin
           pack_length == options.material_length - 2 * options.margin
       IN  rect_list' \in packer_rect_lists(rects, _mm_to_int(Fin(pack_width)).value,
                                            _mm_to_int(Fin(pack_length)).value,
                                            options.pack_may_rotate)
    /\ pc' = "packer_done"
    /\ UNCHANGED <<options, objects, shapes, rects, pack_result, error,
                   op_result, file_opened, svg_groups, svg_table, solidifyVars, flatVars, meshVars>>

\* The rest of _smart_pack(): every placed rectangle moves its shape, and
\* the PackResult is returned.
SmartPackApply ==
    /\ pc = "packer_done"
    /\ LET st == apply_rects([shapes |-> shapes, packed_bounds |-> AABB_default,
                              covered_area |-> 0, bin_idx_max |-> 0],
                             options, rect_list, Len(rect_list))
       IN  /\ shapes' = st.shapes
           /\ pack_result' = [canvas_bounds |-> st.packed_bounds,
                              covered_area |-> st.covered_area,
                              num_pages |-> st.bin_idx_max + 1]
    /\ pc' = "packed"
    /\ UNCHANGED <<options, objects, rects, rect_list, error,
                   op_result, file_opened, svg_groups, svg_table, solidifyVars, flatVars, meshVars>>

\* f"{x:.0f}" and f"{x:.3f}": n / (2 * half) rounded to a whole number, a tie
\* to the even one, with the sign of n written in front.
format_rounded(n, half) ==
    LET a     == IF n < 0 THEN -n ELSE n
        whole == (a \div half) \div 2
        tie   == (a \div half) % 2 = 1
    IN  [neg |-> n < 0,
         digits |-> IF tie /\ (a % half > 0 \/ whole % 2 = 1) THEN whole + 1 ELSE whole]

\* table.sort(): the rows in the order of their first item, the shape name.
sort(rows) ==
    CHOOSE s \in [1..Len(rows) -> {rows[i] : i \in 1..Len(rows)}] :
        /\ \A i \in 1..Len(rows) : \E j \in 1..Len(rows) : s[j] = rows[i]
        /\ \A i, j \in 1..Len(rows) : i < j => s[i].name <= s[j].name

\* _write_shape_table(): one row per shape, with its width and height less
\* the laser width in whole millimetres and its surface in thousandths of a
\* square metre, sorted by name.  The heading row put in front is the same
\* in every document and is left out.
_write_shape_table(shapes_, laser_width) ==
    sort([i \in 1..Len(shapes_) |->
            LET aabb == MeshBoundary_aabb(shapes_[i])
                w == AABB_width(aabb).v - laser_width
                h == AABB_height(aabb).v - laser_width
            IN  [name |-> shapes_[i].name,
                 width |-> format_rounded(w, 1000),
                 height |-> format_rounded(h, 1000),
                 surface |-> format_rounded(w * h, 2000000000)]])

\* _write_shape(layer, shape): the group of the shape, in the layer of its
\* page, with transform "translate(tx, -ty) rotate(r)".
_write_shape(shape) ==
    [layer |-> shape.page_num, id |-> shape.name,
     translate |-> <<shape.translation[1], -shape.translation[2]>>,
     rotate |-> shape.rotation]

\* write() from the NoShapes test to the last element of the document: one
\* layer per page, one group per shape in the layer of its page, and the
\* shape table when options.shape_table asks for it.  shape_table and
\* laser_width are settings no earlier step of this run reads.
WriteAssemble ==
    /\ pc = "packed"
    /\ IF ~PackResult_bool(pack_result)
       THEN /\ Raise("NoShapes")
            /\ UNCHANGED <<svg_groups, svg_table>>
       ELSE IF \E i \in 1..Len(shapes) : shapes[i].page_num >= pack_result.num_pages
       THEN /\ Raise("IndexError")
            /\ UNCHANGED <<svg_groups, svg_table>>
       ELSE /\ svg_groups' = [i \in 1..Len(shapes) |-> _write_shape(shapes[i])]
            /\ \E shape_table \in BOOLEAN : \E laser_width \in LaserWidths :
                  svg_table' = IF shape_table
                               THEN [written |-> TRUE,
                                     rows |-> _write_shape_table(shapes, laser_width)]
                               ELSE NoTable
            /\ pc' = "assembled"
            /\ UNCHANGED <<error, op_result>>
    /\ UNCHANGED <<options, objects, shapes, rects, rect_list,
                   pack_result, file_opened, solidifyVars, flatVars, meshVars>>

\* write() opening the file although the document is not assembled yet.
WriteFile_early ==
    /\ pc = "packed"
    /\ ~file_opened
    /\ file_opened' = TRUE
    /\ UNCHANGED <<options, objects, shapes, pc, rects, rect_list,
                   pack_result, error, op_result, svg_groups, svg_table, solidifyVars, flatVars, meshVars>>

\* out_path.open("wb") and tree.write(); write() returns and execute()
\* reports the size and returns FINISHED.
WriteFile ==
    /\ pc = "assembled"
    /\ file_opened' = TRUE
    /\ op_result' = "FINISHED"
    /\ pc' = "done"
    /\ UNCHANGED <<options, objects, shapes, rects, rect_list,
                   pack_result, error, svg_groups, svg_table, solidifyVars, flatVars, meshVars>>

Next ==
    \/ CollectShapes
    \/ SmartPackAddRects
    \/ PackerPack
    \/ SmartPackApply
    \/ WriteAssemble
    \/ WriteFile

Spec == Init /\ [][Next]_vars

----------------------------------------------------------------------------
(* Specification SpecSolidify: _collect_shapes() step by step over objects   *)
(* that carry modifiers: _solidify_disable(), flatten_mesh() returning or    *)
(* raising, _solidify_enable() in the finally clause.                        *)

\* Modifiers per object.
MaxModifiers == 2

\* _solidify_modifiers(object): the modifiers of type SOLIDIFY, by position.
_solidify_modifiers(mods) == {k \in 1..Len(mods) : mods[k].type = "SOLIDIFY"}

\* _solidify_disable(object): the dict of show_viewport by modifier name, and
\* the modifiers with every Solidify modifier hidden.
_solidify_disable(mods) ==
    [modifier_state |->
        [n \in {mods[k].name : k \in _solidify_modifiers(mods)} |->
            LET k == CHOOSE k \in _solidify_modifiers(mods) : mods[k].name = n
            IN  mods[k].show_viewport],
     modifiers |->
        [k \in 1..Len(mods) |->
            IF k \in _solidify_modifiers(mods)
            THEN [mods[k] EXCEPT !.show_viewport = FALSE]
            ELSE mods[k]]]

\* A _solidify_enable() that shows every Solidify modifier, whatever the dict
\* holds.
_solidify_enable_shown(mods, state) ==
    [k \in 1..Len(mods) |->
        IF k \in _solidify_modifiers(mods)
        THEN [mods[k] EXCEPT !.show_viewport = TRUE]
        ELSE mods[k]]

\* _solidify_enable(object, modifier_state)
_solidify_enable(mods, state) ==
    [k \in 1..Len(mods) |->
        IF k \in _solidify_modifiers(mods)
        THEN [mods[k] EXCEPT !.show_viewport = state[mods[k].name]]
        ELSE mods[k]]

\* The object the loop of _collect_shapes() is at; its shape is appended
\* before the with block is left.
current == IF pc = "finally" /\ error = "none" THEN Len(shapes) ELSE Len(shapes) + 1

\* __enter__ of _solidify_disabled(): _solidify_disable(); depsgraph.update()
\* and evaluated_get() hand the object without its Solidify modifiers on.
SolidifyDisable ==
    /\ pc = "collect"
    /\ current <= Len(objects)
    /\ LET d == _solidify_disable(modifiers[current])
       IN  /\ modifier_state' = d.modifier_state
           /\ modifiers' = [modifiers EXCEPT ![current] = d.modifiers]
    /\ pc' = "with"
    /\ UNCHANGED <<options, objects, shapes, rects, rect_list, pack_result, error,
                   op_result, file_opened, svg_groups, svg_table, modifiers0,
                   flatVars, meshVars>>

\* The body of the with block: flatten_mesh() returns and the shape is
\* appended.
FlattenReturns ==
    /\ pc = "with"
    /\ ~objects[current].kerf_error
    /\ shapes' = Append(shapes, flatten_mesh(objects[current]))
    /\ pc' = "finally"
    /\ UNCHANGED <<options, objects, rects, rect_list, pack_result, error,
                   op_result, file_opened, svg_groups, svg_table, solidifyVars,
                   flatVars, meshVars>>

\* The body of the with block: flatten_mesh() raises MeshAnalysisError.
FlattenRaises ==
    /\ pc = "with"
    /\ objects[current].kerf_error
    /\ error' = "MeshAnalysisError"
    /\ pc' = "finally"
    /\ UNCHANGED <<options, objects, shapes, rects, rect_list, pack_result,
                   op_result, file_opened, svg_groups, svg_table, solidifyVars,
                   flatVars, meshVars>>

\* The finally clause of _solidify_disabled(): _solidify_enable(); then the
\* next object, or the exception leaves _collect_shapes() and execute().
SolidifyEnable ==
    /\ pc = "finally"
    /\ modifiers' = [modifiers EXCEPT
                        ![current] = _solidify_enable(modifiers[current], modifier_state)]
    /\ IF error = "none"
       THEN pc' = "collect" /\ UNCHANGED op_result
       ELSE pc' = "done" /\ op_result' = "raised"
    /\ UNCHANGED <<options, objects, shapes, rects, rect_list, pack_result, error,
                   file_opened, svg_groups, svg_table, modifiers0, modifier_state,
                   flatVars, meshVars>>

\* return shapes
CollectReturn ==
    /\ pc = "collect"
    /\ current > Len(objects)
    /\ pc' = "collected"
    /\ UNCHANGED <<options, objects, shapes, rects, rect_list, pack_result, error,
                   op_result, file_opened, svg_groups, svg_table, solidifyVars,
                   flatVars, meshVars>>

NextSolidify ==
    \/ SolidifyDisable
    \/ FlattenReturns
    \/ FlattenRaises
    \/ SolidifyEnable
    \/ CollectReturn

\* The modifier stacks an object can have: up to MaxModifiers modifiers,
\* Solidify or of another type, shown or hidden; Blender keeps the names of
\* the modifiers of one object distinct.
ModifierStacks ==
    UNION {[1..n -> [type : {"SOLIDIFY", "BEVEL"}, show_viewport : BOOLEAN]] :
                n \in 0..MaxModifiers}

named(stack) ==
    [k \in 1..Len(stack) |->
        [name |-> k, type |-> stack[k].type, show_viewport |-> stack[k].show_viewport]]

InitSolidify ==
    /\ options \in {o \in OptionValues :
                        o.material_width = 6 /\ o.margin = 0 /\ o.shape_padding = 0
                        /\ ~o.pack_may_rotate}
    /\ \E n \in 0..MaxObjects : \E raising \in [1..n -> BOOLEAN] :
       \E stacks \in [1..n -> ModifierStacks] :
          /\ objects = [i \in 1..n |->
                          [name |-> i, flat |-> RectOutline(2, 2), kerf_error |-> raising[i]]]
          /\ modifiers = [i \in 1..n |-> named(stacks[i])]
    /\ modifiers0 = modifiers
    /\ modifier_state = <<>>
    /\ shapes = <<>> /\ pc = "collect"
    /\ rects = <<>> /\ rect_list = <<>>
    /\ pack_result = [canvas_bounds |-> AABB_default, covered_area |-> 0, num_pages |-> 0]
    /\ error = "none" /\ op_result = "none" /\ file_opened = FALSE
    /\ svg_groups = <<>> /\ svg_table = NoTable
    /\ FlatIdle
    /\ MeshIdle

SpecSolidify == InitSolidify /\ [][NextSolidify]_vars

----------------------------------------------------------------------------
(* Specification SpecScenario: the export run on the shapes of the rotation  *)
(* scenario.  Packing compares lengths only, so the scenario is drawn to     *)
(* scale, 50 mm of it to one micrometre of the model: the 300 x 100 mm shape *)
(* is 6 x 2 micrometres, a usable area of 150 x 250 mm is 3 x 5 micrometres. *)

\* The 300 x 100 mm shape and the same shape standing.
ScenarioWide == [flat |-> RectOutline(12, 4), kerf_error |-> FALSE]
ScenarioTall == [flat |-> RectOutline(4, 12), kerf_error |-> FALSE]

\* A material 150 mm wide and 250 or 350 mm long, without margin or with a
\* margin of 50 mm.
ScenarioOptions ==
    [material_width : {6}, material_length : {10, 14}, margin : {0, 2},
     shape_padding : {0}, pack_may_rotate : BOOLEAN]

InitScenario ==
    /\ options \in ScenarioOptions
    /\ \E n \in 1..MaxObjects : \E kinds \in [1..n -> {ScenarioWide, ScenarioTall}] :
          objects = [i \in 1..n |->
                        [name |-> i, flat |-> kinds[i].flat,
                         kerf_error |-> kinds[i].kerf_error]]
    /\ shapes = <<>> /\ pc = "start"
    /\ rects = <<>> /\ rect_list = <<>>
    /\ pack_result = [canvas_bounds |-> AABB_default, covered_area |-> 0, num_pages |-> 0]
    /\ error = "none" /\ op_result = "none" /\ file_opened = FALSE
    /\ svg_groups = <<>> /\ svg_table = NoTable
    /\ SolidifyIdle
    /\ FlatIdle
    /\ MeshIdle

SpecScenario == InitScenario /\ [][Next]_vars

----------------------------------------------------------------------------
(* The BMesh.  Vertices are 1..Len(co); an edge has an ordered pair of     *)
(* vertices and the flags seam and smooth; a face is the cycle of its      *)
(* vertices.  Coordinates are integer triples.  A direction (the result of *)
(* normalized()) is an integer triple counting fifths, so that the unit    *)
(* vectors along (3, 4) and (4, 3) are exact.                              *)

VAdd(a, b) == <<a[1] + b[1], a[2] + b[2], a[3] + b[3]>>
VSub(a, b) == <<a[1] - b[1], a[2] - b[2], a[3] - b[3]>>
VDot(a, b) == a[1] * b[1] + a[2] * b[2] + a[3] * b[3]

\* Vector.cross
VCross(a, b) ==
    <<a[2] * b[3] - a[3] * b[2], a[3] * b[1] - a[1] * b[3], a[1] * b[2] - a[2] * b[1]>>

\* The length of a vector whose length is a whole number.
VLength(a) == CHOOSE l \in 0..VDot(a, a) : l * l = VDot(a, a)

\* Vector.normalized(), in fifths; the zero vector stays the zero vector.
normalized(a) ==
    IF VDot(a, a) = 0 THEN <<0, 0, 0>>
    ELSE <<(5 * a[1]) \div VLength(a), (5 * a[2]) \div VLength(a), (5 * a[3]) \div VLength(a)>>

\* The edges as unordered pairs.
EdgeSet(mesh_, i) == {mesh_.edges[i].verts[1], mesh_.edges[i].verts[2]}

\* The vertex after position k of a face cycle.
NextInFace(face, k) == face[(k % Len(face)) + 1]

\* The loops of the mesh: <<f, k>> is the corner k of face f.
Loops(mesh_) ==
    UNION {{<<f, k>> : k \in 1..Len(mesh_.faces[f])} : f \in 1..Len(mesh_.faces)}

loop_vert(mesh_, l) == mesh_.faces[l[1]][l[2]]

\* l.edge: the edge from the vertex of the loop to the next vertex of the face.
loop_edge(mesh_, l) ==
    CHOOSE i \in 1..Len(mesh_.edges) :
        EdgeSet(mesh_, i) = {loop_vert(mesh_, l), NextInFace(mesh_.faces[l[1]], l[2])}

\* The number of faces that use edge i.
edge_faces(mesh_, i) == Cardinality({l \in Loops(mesh_) : loop_edge(mesh_, l) = i})

is_wire(mesh_, i)     == edge_faces(mesh_, i) = 0
is_boundary(mesh_, i) == edge_faces(mesh_, i) = 1
is_manifold(mesh_, i) == edge_faces(mesh_, i) = 2

\* v.link_edges, as a set of edge indices.
link_edges(mesh_, v) == {i \in 1..Len(mesh_.edges) : v \in EdgeSet(mesh_, i)}

\* BMVert.is_boundary: the vertex is on a boundary edge.
vert_is_boundary(mesh_, v) == \E i \in link_edges(mesh_, v) : is_boundary(mesh_, i)

\* e.other_vert(v)
other_vert(mesh_, i, v) == CHOOSE o \in EdgeSet(mesh_, i) : o # v

\* face.normal of a face in the plane z = 0, in fifths: up or down with the
\* sense of the cycle, the zero vector for a face without area.
face_normal(mesh_, coords, f) ==
    LET face == mesh_.faces[f]
        RECURSIVE shoelace(_)
        shoelace(k) ==
            IF k = 0 THEN 0
            ELSE shoelace(k - 1)
                 + coords[face[k]][1] * coords[NextInFace(face, k)][2]
                 - coords[NextInFace(face, k)][1] * coords[face[k]][2]
        a == shoelace(Len(face))
    IN  <<0, 0, IF a > 0 THEN 5 ELSE IF a < 0 THEN -5 ELSE 0>>

----------------------------------------------------------------------------
(* add_kerf *)

\* The loops the first pass of add_kerf() takes a tangent from: loops of
\* boundary vertices whose edge is not manifold, not wire and not a seam.
kerf_loops(mesh_) ==
    {l \in Loops(mesh_) :
        /\ vert_is_boundary(mesh_, loop_vert(mesh_, l))
        /\ ~(is_manifold(mesh_, loop_edge(mesh_, l)) \/ is_wire(mesh_, loop_edge(mesh_, l)))
        /\ ~mesh_.edges[loop_edge(mesh_, l)].seam}

\* tangent = loop_vec.cross(l.face.normal).normalized()
loop_tangent(mesh_, coords, l) ==
    LET v        == loop_vert(mesh_, l)
        v_other  == other_vert(mesh_, loop_edge(mesh_, l), v)
        loop_vec == normalized(VSub(coords[v_other], coords[v]))
    IN  normalized(VCross(loop_vec, face_normal(mesh_, coords, l[1])))

\* abs(tangent.length - 1.0) > 1e-6
not_unit(t) == VDot(t, t) # 25

\* The loops in the order the two for-loops visit them: by vertex, then in
\* the order of v.link_loops.
loop_before(mesh_, a, b) ==
    \/ loop_vert(mesh_, a) < loop_vert(mesh_, b)
    \/ loop_vert(mesh_, a) = loop_vert(mesh_, b) /\ a[1] < b[1]
    \/ loop_vert(mesh_, a) = loop_vert(mesh_, b) /\ a[1] = b[1] /\ a[2] < b[2]

RECURSIVE loops_in_order(_, _)
loops_in_order(mesh_, S) ==
    IF S = {} THEN <<>>
    ELSE LET first == CHOOSE l \in S : \A o \in S \ {l} : loop_before(mesh_, l, o)
         IN  <<first>> \o loops_in_order(mesh_, S \ {first})

\* edge_kerfs after the first pass: for every edge, the tangents appended.
RECURSIVE collect_kerfs(_, _, _, _)
collect_kerfs(mesh_, coords, ls, n) ==
    IF n = 0 THEN [i \in 1..Len(mesh_.edges) |-> <<>>]
    ELSE LET before == collect_kerfs(mesh_, coords, ls, n - 1)
             e      == loop_edge(mesh_, ls[n])
         IN  [before EXCEPT ![e] = Append(@, loop_tangent(mesh_, coords, ls[n]))]

\* clamp_vector(v), the bounds -1.0 and 1.0 in fifths.
clamp_vector(v) ==
    LET clamp(x) == IF x < -5 THEN -5 ELSE IF x > 5 THEN 5 ELSE x
    IN  <<clamp(v[1]), clamp(v[2]), clamp(v[3])>>

\* vtx_kerf_directions after the second pass: every edge with tangents adds
\* its first tangent to both its vertices.
RECURSIVE accumulate_kerfs(_, _, _)
accumulate_kerfs(mesh_, kerfs, n) ==
    IF n = 0 THEN [v \in {} |-> <<0, 0, 0>>]
    ELSE LET before == accumulate_kerfs(mesh_, kerfs, n - 1)
             at(v)  == IF v \in DOMAIN before THEN before[v] ELSE <<0, 0, 0>>
         IN  IF kerfs[n] = <<>> THEN before
             ELSE [v \in DOMAIN before \cup EdgeSet(mesh_, n) |->
                      IF v \in EdgeSet(mesh_, n) THEN VAdd(at(v), kerfs[n][1]) ELSE before[v]]

\* A first pass that moves both vertices of an edge as soon as the edge has
\* its tangent.
AddKerfTangents_moving ==
    /\ kf_pc = "start"
    /\ LET ls   == loops_in_order(bm, kerf_loops(bm))
           bad  == {n \in 1..Len(ls) : not_unit(loop_tangent(bm, co, ls[n]))}
           upto == IF bad = {} THEN Len(ls)
                   ELSE (CHOOSE n \in bad : \A o \in bad : n <= o) - 1
           got  == collect_kerfs(bm, co, ls, upto)
       IN  /\ edge_kerfs' = got
           /\ co' = [v \in 1..Len(co) |->
                       IF \E i \in link_edges(bm, v) : got[i] # <<>>
                       THEN LET i == CHOOSE i \in link_edges(bm, v) : got[i] # <<>>
                            IN  VAdd(co[v], <<(got[i][1][1] * kerf_width) \div 5,
                                              (got[i][1][2] * kerf_width) \div 5,
                                              (got[i][1][3] * kerf_width) \div 5>>)
                       ELSE co[v]]
           /\ kf_pc' = IF bad = {} THEN "tangents" ELSE "MeshAnalysisError"
    /\ UNCHANGED <<bm, co0, kerf_width, vtx_kerf_directions,
                   aabbVars, traceVars, flatVars, exportVars>>

\* First pass of add_kerf(): the tangents, or MeshAnalysisError at the first
\* tangent that is not of unit length; no vertex has moved yet.
AddKerfTangents ==
    /\ kf_pc = "start"
    /\ LET ls   == loops_in_order(bm, kerf_loops(bm))
           bad  == {n \in 1..Len(ls) : not_unit(loop_tangent(bm, co, ls[n]))}
           upto == IF bad = {} THEN Len(ls)
                   ELSE (CHOOSE n \in bad : \A o \in bad : n <= o) - 1
       IN  /\ edge_kerfs' = collect_kerfs(bm, co, ls, upto)
           /\ kf_pc' = IF bad = {} THEN "tangents" ELSE "MeshAnalysisError"
    /\ UNCHANGED <<bm, co, co0, kerf_width, vtx_kerf_directions,
                   aabbVars, traceVars, flatVars, exportVars>>

\* Second pass: the directions per vertex; the assertion fails when an edge
\* has more than one tangent.
AddKerfAccumulate ==
    /\ kf_pc = "tangents"
    /\ IF \E i \in 1..Len(edge_kerfs) : Len(edge_kerfs[i]) > 1
       THEN /\ kf_pc' = "AssertionError"
            /\ UNCHANGED vtx_kerf_directions
       ELSE /\ vtx_kerf_directions' = accumulate_kerfs(bm, edge_kerfs, Len(edge_kerfs))
            /\ kf_pc' = "accumulated"
    /\ UNCHANGED <<bm, co, co0, kerf_width, edge_kerfs,
                   aabbVars, traceVars, flatVars, exportVars>>

\* Third pass: every direction is clamped and its vertex moved by
\* kerf_direction * kerf_width.
AddKerfDisplace ==
    /\ kf_pc = "accumulated"
    /\ vtx_kerf_directions' =
          [v \in DOMAIN vtx_kerf_directions |-> clamp_vector(vtx_kerf_directions[v])]
    /\ co' = [v \in 1..Len(co) |->
                IF v \in DOMAIN vtx_kerf_directions
                THEN LET d == clamp_vector(vtx_kerf_directions[v])
                     IN  VAdd(co[v], <<(d[1] * kerf_width) \div 5,
                                       (d[2] * kerf_width) \div 5,
                                       (d[3] * kerf_width) \div 5>>)
                ELSE co[v]]
    /\ kf_pc' = "displaced"
    /\ UNCHANGED <<bm, co0, kerf_width, edge_kerfs, aabbVars, traceVars, flatVars, exportVars>>

NextKerf == AddKerfTangents \/ AddKerfAccumulate \/ AddKerfDisplace

\* A face of four vertices: the corner <<10, 10, 0>>, a side s, the next side
\* s turned by a quarter, in the sense given.
QuadCo(s, ccw) ==
    LET p == <<10, 10, 0>>
        t == IF ccw THEN <<-s[2], s[1], 0>> ELSE <<s[2], -s[1], 0>>
        u == <<s[1], s[2], 0>>
    IN  <<p, VAdd(p, u), VAdd(VAdd(p, u), t), VAdd(p, t)>>

\* The sides drawn: along the axes, along (3, 4) and (4, 3), and no side at
\* all (the four vertices in one point).
QuadSides == {<<10, 0>>, <<0, 10>>, <<-10, 0>>, <<6, 8>>, <<8, 6>>, <<-8, 6>>, <<0, 0>>}

\* One quadrilateral face 1-2-3-4 with its four edges, every choice of the
\* flags seam and smooth.
QuadMeshes ==
    {[edges |-> [i \in 1..4 |-> [verts |-> <<i, (i % 4) + 1>>,
                                 seam |-> i \in sm, smooth |-> i \notin sh]],
      faces |-> <<<<1, 2, 3, 4>>>>] : sm \in SUBSET (1..4), sh \in SUBSET (1..4)}

InitKerf ==
    /\ bm \in QuadMeshes
    /\ \E s \in QuadSides, ccw \in BOOLEAN : co = QuadCo(s, ccw)
    /\ co0 = co
    /\ kerf_width \in {0, 5}
    /\ edge_kerfs = <<>> /\ vtx_kerf_directions = <<>>
    /\ kf_pc = "start"
    /\ AABBIdle /\ TraceIdle
    /\ FlatIdle /\ ExportIdle

SpecKerf == InitKerf /\ [][NextKerf]_vars

----------------------------------------------------------------------------
(* AABB.join on its own: aabb_in holds the boxes A and B before the call,    *)
(* aabb_out holds A after A.join(B).                                         *)

\* The boxes the program builds: the default box, and what extend() and
\* join() make of it, which has min <= max on both axes.
AABBCoords == 0..2

ExtendedBoxes ==
    {AABB(Fin(x1), Fin(y1), Fin(x2), Fin(y2)) :
        <<x1, y1, x2, y2>> \in {q \in AABBCoords \X AABBCoords \X AABBCoords \X AABBCoords :
                                   q[1] <= q[3] /\ q[2] <= q[4]}}

Boxes == {AABB_default} \cup ExtendedBoxes

AABBJoin ==
    /\ aabb_in # <<>> /\ aabb_out = <<>>
    /\ aabb_out' = <<AABB_join(aabb_in[1], aabb_in[2])>>
    /\ UNCHANGED <<aabb_in, bm, co, kerfVars, traceVars, flatVars, exportVars>>

NextAABB == AABBJoin

InitAABB ==
    /\ aabb_in \in Boxes \X Boxes
    /\ aabb_out = <<>>
    /\ NoBMesh /\ KerfIdle /\ TraceIdle
    /\ FlatIdle /\ ExportIdle

SpecAABB == InitAABB /\ [][NextAABB]_vars

----------------------------------------------------------------------------
(* _boundary_polygons_from_bmesh: the generator that traces the export      *)
(* edges of the BMesh into AnnotatedMesh objects, one step per iteration of *)
(* its two loops, then the rest of flatten_mesh() and _write_shape().  co   *)
(* is the mesh as add_kerf() leaves it.                                     *)

\* MeshType.for_edge
for_edge(edge) == IF ~edge.smooth THEN "ENGRAVE" ELSE "CUT"

\* An export test that forgets the wire edges.
_is_export_edge_boundary_only(mesh_, i) == is_boundary(mesh_, i)

_is_export_edge(mesh_, i) == is_boundary(mesh_, i) \/ is_wire(mesh_, i)

\* _find_start_edge_indices: the only edge of every vertex that has exactly
\* one edge.
_find_start_edge_indices(mesh_, coords) ==
    {i \in 1..Len(mesh_.edges) : \E v \in 1..Len(coords) : link_edges(mesh_, v) = {i}}

\* find_next_edge(vertex) returns the first edge of vertex.link_edges that is
\* still to export; the order of link_edges is not fixed by the mesh, so
\* every such edge may be the one.  The empty set stands for None.
find_next_edge(mesh_, vertex, export) == link_edges(mesh_, vertex) \cap export

\* AnnotatedEdge(verts=(a.co, b.co), edgeType=MeshType.for_edge(e)).  The
\* fields index and ends record which edge and which vertices the
\* coordinates were taken from.
AnnotatedEdge(mesh_, coords, a, b, i) ==
    [verts |-> <<coords[a], coords[b]>>, edgeType |-> for_edge(mesh_.edges[i]),
     index |-> i, ends |-> <<a, b>>]

\* The first edge of a chain: <<v0, visit>>.
first_edge_ends(mesh_, i) ==
    LET verts == mesh_.edges[i].verts
    IN  IF Cardinality(link_edges(mesh_, verts[1])) = 1
        THEN <<verts[1], verts[2]>>
        ELSE <<verts[2], verts[1]>>

\* The next edge taken as it is stored.
next_edge_ends_as_stored(verts, visit_) == verts

\* The next edge of a chain: from the vertex of the pair that is the current
\* one to the other vertex.
next_edge_ends(verts, visit_) ==
    IF verts[1] = visit_ THEN <<verts[1], verts[2]>> ELSE <<verts[2], verts[1]>>

\* start_edge_indices.discard(index) left out.
discard_forgotten(start, i) == start

\* start_edge_indices.discard(index)
discard(start, i) == start \ {i}

\* _axis_to_drop: the first axis along which the bounding box of the
\* vertices is smallest, counted from 1.
_axis_to_drop(coords) ==
    LET dim(k) == SetMax({coords[v][k] : v \in 1..Len(coords)})
                  - SetMin({coords[v][k] : v \in 1..Len(coords)})
    IN  CHOOSE k \in 1..3 : /\ \A o \in 1..3 : dim(k) <= dim(o)
                            /\ \A o \in 1..(k - 1) : dim(o) > dim(k)

\* AnnotatedEdge.flattened(drop_axis)
flattened(edge, drop_axis) ==
    LET keep == IF drop_axis = 1 THEN <<2, 3>> ELSE IF drop_axis = 2 THEN <<1, 3>> ELSE <<1, 2>>
        flat(p) == <<p[keep[1]], p[keep[2]]>>
    IN  FlattenedEdge(flat(edge.verts[1]), flat(edge.verts[2]), edge.edgeType)

\* combined_flat_mesh after the first n yielded meshes were flattened and
\* appended.
RECURSIVE combined_flat_mesh(_, _, _)
combined_flat_mesh(meshes, drop_axis, n) ==
    IF n = 0 THEN <<>>
    ELSE combined_flat_mesh(meshes, drop_axis, n - 1)
         \o [k \in 1..Len(meshes[n]) |-> flattened(meshes[n][k], drop_axis)]

\* Lines 453-461: the export edges and the start edges among them.
TraceStart ==
    /\ tr_pc = "start"
    /\ LET export == {i \in 1..Len(bm.edges) : _is_export_edge(bm, i)}
           start  == _find_start_edge_indices(bm, co)
       IN  /\ export_edge_indices' = export
           /\ start_edge_indices' = start \ (start \ export)
    /\ tr_pc' = "outer"
    /\ UNCHANGED <<bm, co, annotated_mesh, yielded, visit, v0, polygons, svg_elements,
                   kerfVars, aabbVars, flatVars, exportVars>>

\* One iteration of the outer loop up to the inner loop: an edge is popped
\* from the start edges if there are any, else from the export edges (pop()
\* of a set takes any element), and becomes the first edge of a new chain.
OuterPop ==
    /\ tr_pc = "outer"
    /\ export_edge_indices # {}
    /\ \E edge_idx \in (IF start_edge_indices # {} THEN start_edge_indices
                        ELSE export_edge_indices) :
          IF edge_idx \notin export_edge_indices
          THEN \* export_edge_indices.remove(edge_idx) raises
               /\ tr_pc' = "KeyError"
               /\ start_edge_indices' = start_edge_indices \ {edge_idx}
               /\ annotated_mesh' = <<>>
               /\ UNCHANGED <<export_edge_indices, visit, v0>>
          ELSE LET ends == first_edge_ends(bm, edge_idx)
               IN  /\ export_edge_indices' = export_edge_indices \ {edge_idx}
                   /\ start_edge_indices' = start_edge_indices \ {edge_idx}
                   /\ v0' = ends[1]
                   /\ visit' = ends[2]
                   /\ annotated_mesh' = <<AnnotatedEdge(bm, co, ends[1], ends[2], edge_idx)>>
                   /\ tr_pc' = "walk"
    /\ UNCHANGED <<bm, co, yielded, polygons, svg_elements,
                   kerfVars, aabbVars, flatVars, exportVars>>

\* One iteration of the inner loop that does not break.
WalkStep ==
    /\ tr_pc = "walk"
    /\ visit # v0
    /\ \E e \in find_next_edge(bm, visit, export_edge_indices) :
          LET ends == next_edge_ends(bm.edges[e].verts, visit)
          IN  /\ export_edge_indices' = export_edge_indices \ {e}
              /\ start_edge_indices' = discard(start_edge_indices, e)
              /\ visit' = ends[2]
              /\ annotated_mesh' = Append(annotated_mesh, AnnotatedEdge(bm, co, ends[1], ends[2], e))
    /\ UNCHANGED <<bm, co, yielded, v0, tr_pc, polygons, svg_elements,
                   kerfVars, aabbVars, flatVars, exportVars>>

\* The inner loop ends, at v0 again or with no edge to go on with, and the
\* chain is yielded.
Yield ==
    /\ tr_pc = "walk"
    /\ visit = v0 \/ find_next_edge(bm, visit, export_edge_indices) = {}
    /\ yielded' = Append(yielded, annotated_mesh)
    /\ tr_pc' = "outer"
    /\ UNCHANGED <<bm, co, export_edge_indices, start_edge_indices, annotated_mesh,
                   visit, v0, polygons, svg_elements,
                   kerfVars, aabbVars, flatVars, exportVars>>

\* The outer loop ends with nothing left to export: the generator returns.
TraceEnd ==
    /\ tr_pc = "outer"
    /\ export_edge_indices = {}
    /\ tr_pc' = "traced"
    /\ UNCHANGED <<bm, co, export_edge_indices, start_edge_indices, annotated_mesh,
                   yielded, visit, v0, polygons, svg_elements,
                   kerfVars, aabbVars, flatVars, exportVars>>

\* flatten_mesh() after its for loop: the yielded meshes flattened and
\* combined, move_to_origin(), split().
FlattenMesh ==
    /\ tr_pc = "traced"
    /\ polygons' = flatten_mesh([name |-> 1,
                                 flat |-> combined_flat_mesh(yielded, _axis_to_drop(co),
                                                             Len(yielded))]).polygons
    /\ tr_pc' = "flattened"
    /\ UNCHANGED <<bm, co, export_edge_indices, start_edge_indices, annotated_mesh,
                   yielded, visit, v0, svg_elements,
                   kerfVars, aabbVars, flatVars, exportVars>>

\* _write_shape(): the element written for every polygon.
WriteShape ==
    /\ tr_pc = "flattened"
    /\ svg_elements' = [t \in MeshType |->
                          [j \in 1..Len(polygons[t]) |->
                              IF is_closed(polygons[t][j]) THEN "polygon" ELSE "polyline"]]
    /\ tr_pc' = "done"
    /\ UNCHANGED <<bm, co, export_edge_indices, start_edge_indices, annotated_mesh,
                   yielded, visit, v0, polygons,
                   kerfVars, aabbVars, flatVars, exportVars>>

\* The generator alone.
NextGenerator == TraceStart \/ OuterPop \/ WalkStep \/ Yield \/ TraceEnd

NextTrace == NextGenerator \/ FlattenMesh \/ WriteShape

\* Most wire edges a mesh is given.
MaxWires == 3

\* Most export edges of a mesh.
MaxExportEdges == 4

\* Five points of the plane z = 0.
TraceCo == << <<0, 0, 0>>, <<8, 0, 0>>, <<8, 6, 0>>, <<0, 6, 0>>, <<4, 9, 0>> >>

\* A closed surface on four vertices.
Tetrahedron == << <<1, 2, 3>>, <<1, 4, 2>>, <<2, 4, 3>>, <<3, 4, 1>> >>

\* The faces of the meshes traced: none, a triangle, a quadrilateral, two
\* triangles with a common edge, and the tetrahedron.
FaceSets ==
    { <<>>, << <<1, 2, 3>> >>, << <<1, 2, 3, 4>> >>, << <<1, 2, 3>>, <<1, 3, 4>> >>,
      Tetrahedron }

\* Meshes have four vertices; the tetrahedron has a fifth one off its surface.
TraceVerts(faces) == IF faces = Tetrahedron THEN 1..5 ELSE 1..4

\* The edges the faces bring, as pairs <<a, b>> with a < b.
face_pairs(faces) ==
    {<<a, b>> \in (1..5) \X (1..5) :
        /\ a < b
        /\ \E f \in 1..Len(faces) : \E k \in 1..Len(faces[f]) :
              {a, b} = {faces[f][k], NextInFace(faces[f], k)}}

wire_sets(faces) ==
    {W \in SUBSET {<<a, b>> \in TraceVerts(faces) \X TraceVerts(faces) :
                      a < b /\ <<a, b>> \notin face_pairs(faces)} :
        Cardinality(W) <= MaxWires}

RECURSIVE pairs_in_order(_)
pairs_in_order(S) ==
    IF S = {} THEN <<>>
    ELSE LET first == CHOOSE q \in S : \A o \in S \ {q} :
                          q[1] < o[1] \/ (q[1] = o[1] /\ q[2] < o[2])
         IN  <<first>> \o pairs_in_order(S \ {first})

\* The mesh with the given faces and edges; the edges in flips are stored
\* with their second vertex first, the edges in sharp are marked sharp.
TraceMesh(faces, pairs, flips, sharp) ==
    [edges |-> [i \in 1..Len(pairs) |->
                  [verts |-> IF i \in flips THEN <<pairs[i][2], pairs[i][1]>> ELSE pairs[i],
                   seam |-> FALSE, smooth |-> i \notin sharp]],
     faces |-> faces]

\* Every export edge is stored in either order; no edge is sharp, or every
\* edge, or the first export edge only.
meshes_of(faces, W) ==
    LET pairs  == pairs_in_order(face_pairs(faces) \cup W)
        plain  == TraceMesh(faces, pairs, {}, {})
        export == {i \in 1..Len(pairs) : _is_export_edge(plain, i)}
        sharps == {{}, 1..Len(pairs)}
                  \cup {{i} : i \in {j \in export : \A o \in export : j <= o}}
    IN  {TraceMesh(faces, pairs, flips, sharp) : flips \in SUBSET export, sharp \in sharps}

TraceMeshes ==
    {m \in UNION {UNION {meshes_of(faces, W) : W \in wire_sets(faces)} : faces \in FaceSets} :
        Cardinality({i \in 1..Len(m.edges) : _is_export_edge(m, i)}) <= MaxExportEdges}

\* The generator is about to run on the mesh bm.
TraceReady ==
    /\ co = SubSeq(TraceCo, 1, IF bm.faces = Tetrahedron THEN 5 ELSE 4)
    /\ export_edge_indices = {} /\ start_edge_indices = {}
    /\ annotated_mesh = <<>> /\ yielded = <<>>
    /\ visit = 0 /\ v0 = 0
    /\ tr_pc = "start"
    /\ polygons = <<>> /\ svg_elements = <<>>
    /\ KerfIdle /\ AABBIdle
    /\ FlatIdle /\ ExportIdle

InitTrace == bm \in TraceMeshes /\ TraceReady

SpecTrace == InitTrace /\ [][NextTrace]_vars

\* The meshes whose export edges are all stored first vertex first or all
\* second vertex first, without sharp edges.
TraceMeshesLive ==
    {m \in TraceMeshes :
        /\ \A i \in 1..Len(m.edges) : m.edges[i].smooth
        /\ \/ \A i \in 1..Len(m.edges) : m.edges[i].verts[1] < m.edges[i].verts[2]
           \/ \A i \in 1..Len(m.edges) :
                 _is_export_edge(m, i) <=> m.edges[i].verts[1] > m.edges[i].verts[2]}

InitTraceLive == bm \in TraceMeshesLive /\ TraceReady

\* The generator run to its end by a consumer that asks for the next mesh
\* as long as there is one (the for loop of flatten_mesh): every step of the
\* generator that can be taken is taken.
SpecTraceLive == InitTraceLive /\ [][NextGenerator]_vars /\ WF_vars(NextGenerator)

----------------------------------------------------------------------------
(* Specification SpecKerfCases: add_kerf() on meshes with vertices in the    *)
(* middle of a side and with edges shared by one, two or three faces.        *)

\* The corners of right triangles with sides 30, 40 and 50 on both sides of
\* the edge from <<0, 0>> to <<30, 0>>.
FanCo == << <<0, 0, 0>>, <<30, 0, 0>>, <<0, 40, 0>>, <<0, -40, 0>>, <<30, 40, 0>> >>

\* One, two or three triangles on the edge from vertex 1 to vertex 2.
Fan(k) == [f \in 1..k |-> <<1, 2, f + 2>>]

\* A triangle 1-2-3 with a fourth vertex in the middle of its side 2-3 (the
\* side of length 50) or of its side 1-2 (along the x axis).
MidSideCo == << <<0, 0, 0>>, <<30, 0, 0>>, <<0, 40, 0>>, <<15, 20, 0>> >>
MidLegCo  == << <<0, 0, 0>>, <<30, 0, 0>>, <<0, 40, 0>>, <<15, 0, 0>> >>

\* The fourth vertex on top of vertex 2: the edge between them has no length.
MidSideCoCollapsed == << <<0, 0, 0>>, <<30, 0, 0>>, <<0, 40, 0>>, <<30, 0, 0>> >>

KerfShapes ==
    {[faces |-> Fan(k), co |-> SubSeq(FanCo, 1, k + 2)] : k \in 1..3}
    \cup {[faces |-> << <<1, 2, 4, 3>> >>, co |-> MidSideCo],
          [faces |-> << <<1, 2, 4, 3>> >>, co |-> MidSideCoCollapsed],
          [faces |-> << <<1, 4, 2, 3>> >>, co |-> MidLegCo]}

\* The mesh of a shape: its edges in order, none sharp, the edges in seams
\* marked as seams.
KerfMesh(faces, seams) ==
    LET plain == TraceMesh(faces, pairs_in_order(face_pairs(faces)), {}, {})
    IN  [plain EXCEPT !.edges = [i \in 1..Len(plain.edges) |->
                                    [plain.edges[i] EXCEPT !.seam = i \in seams]]]

\* At most one edge of a shape is a seam.
InitKerfCases ==
    /\ \E shape \in KerfShapes :
          /\ co = shape.co
          /\ \E seams \in {{}} \cup {{i} : i \in 1..Cardinality(face_pairs(shape.faces))} :
                bm = KerfMesh(shape.faces, seams)
    /\ co0 = co
    /\ kerf_width \in {0, 5}
    /\ edge_kerfs = <<>> /\ vtx_kerf_directions = <<>>
    /\ kf_pc = "start"
    /\ AABBIdle /\ TraceIdle
    /\ FlatIdle /\ ExportIdle

SpecKerfCases == InitKerfCases /\ [][NextKerf]_vars

----------------------------------------------------------------------------
(* Where the document puts a shape.  _write_shape() writes every point v as  *)
(* (v.x, -v.y) inside a group with transform                                 *)
(* "translate(tx, -ty) rotate(r)".                                           *)

\* SVG rotate(r) for the two angles transform_into() sets: rotate(90) takes
\* (x, y) to (-y, x).
svg_rotate(r, q) == IF r = 90 THEN <<-q[2], q[1]>> ELSE q

\* A point of the shape in document coordinates with Y pointing up again.
\* The coordinates are written with six significant digits, which the
\* lengths of this model never exceed.
doc_point(shape, v) ==
    LET q == svg_rotate(shape.rotation, <<v[1], -v[2]>>)
    IN  <<q[1] + shape.translation[1], -(q[2] - shape.translation[2])>>


\* The AABB of a shape with a finite box after the document transform.
doc_box(shape) ==
    LET a   == MeshBoundary_aabb(shape)
        pts == {doc_point(shape, <<x, y>>) :
                    x \in {a.min_x.v, a.max_x.v}, y \in {a.min_y.v, a.max_y.v}}
    IN  [min_x |-> SetMin({q[1] : q \in pts}), max_x |-> SetMax({q[1] : q \in pts}),
         min_y |-> SetMin({q[2] : q \in pts}), max_y |-> SetMax({q[2] : q \in pts})]

\* The usable rectangle of a page: the material without its margins.
usable(opts, page) ==
    [min_x |-> page_offset(opts, page) + opts.margin,
     max_x |-> page_offset(opts, page) + opts.material_width - opts.margin,
     min_y |-> opts.margin,
     max_y |-> opts.material_length - opts.margin]

----------------------------------------------------------------------------
(* Properties of the export run, checked under Spec.                         *)

\* pack() has returned: num_pages is at least 1 from then on.
PackReturned == pack_result.num_pages >= 1

\* The shapes pack() placed.
Placed == {rect_list[m].rid : m \in 1..Len(rect_list)}

NonFinite(x) == x.k # 0

\* The padded width or height of the shape is not a finite number.
NonFinitePadded(shape) ==
    \/ NonFinite(FAdd(AABB_width(MeshBoundary_aabb(shape)), Fin(2 * options.shape_padding)))
    \/ NonFinite(FAdd(AABB_height(MeshBoundary_aabb(shape)), Fin(2 * options.shape_padding)))

Untouched(shape) ==
    shape.rotation = 0 /\ shape.translation = <<0, 0>> /\ shape.page_num = 0

\* C1 as stated: after pack(), the transformed AABB of every placed shape
\* lies inside the usable rectangle of the page it was assigned to.
C1_PlacedInsideUsable ==
    PackReturned =>
        \A i \in Placed :
            LET b == doc_box(shapes[i])
                u == usable(options, shapes[i].page_num)
            IN  /\ u.min_x <= b.min_x /\ b.max_x <= u.max_x
                /\ u.min_y <= b.min_y /\ b.max_y <= u.max_y

\* C2: with no object to export, pack() returns a result whose canvas_bounds
\* is the empty AABB, write() raises NoShapes without opening the file, and
\* execute() returns CANCELLED.
C2_EmptyListCancelled ==
    objects = <<>> =>
        /\ ~file_opened
        /\ pc = "done" =>
              /\ pack_result.num_pages = 1
              /\ pack_result.canvas_bounds = AABB_default
              /\ ~AABB_bool(pack_result.canvas_bounds)
              /\ error = "NoShapes"
              /\ op_result = "CANCELLED"

\* C2 witness: a run without objects has ended, pack() having returned.
C2_Witness ==
    objects = <<>> /\ pc = "done" /\ PackReturned /\ op_result = "CANCELLED"

\* Every object of a list that is not empty traced to nothing.
AllDegenerate ==
    /\ objects # <<>>
    /\ \A i \in 1..Len(objects) : objects[i].flat = <<>> /\ ~objects[i].kerf_error

\* C3 as stated: when the shape list is not empty and every shape is
\* degenerate, pack() returns a result with empty canvas_bounds and the run
\* ends with NoShapes, no other error.
C3_AllDegenerateIsNoShapes ==
    (AllDegenerate /\ pc = "done") =>
        /\ PackReturned
        /\ ~AABB_bool(pack_result.canvas_bounds)
        /\ error = "NoShapes"

\* C4: if the padded width or height of any shape is not finite, pack()
\* fails with ValueError, and no shape has been moved, turned or assigned a
\* page by then, wherever the shape is in the list.
C4_NonFiniteIsFatal ==
    (/\ pc \notin {"start", "collected"}
     /\ error # "MeshAnalysisError"
     /\ \E i \in 1..Len(shapes) : NonFinitePadded(shapes[i]))
    =>  /\ pc = "done"
        /\ error = "ValueError"
        /\ ~PackReturned
        /\ rect_list = <<>>
        /\ \A i \in 1..Len(shapes) : Untouched(shapes[i])

\* C4 witness: the second of two shapes has no finite size; add_rect() was
\* called for the first one before the ValueError.
C4_Witness ==
    /\ pc = "done" /\ error = "ValueError"
    /\ Len(shapes) = 2 /\ Len(rects) = 1
    /\ ~NonFinitePadded(shapes[1]) /\ NonFinitePadded(shapes[2])

\* C5: the output file is opened only when every object has been traced and
\* flattened, pack() has returned and the NoShapes test has passed; a run
\* that raised MeshAnalysisError, ValueError or NoShapes has not opened it.
C5_FileOpenedLast ==
    /\ file_opened =>
          /\ error = "none"
          /\ pc = "done" /\ op_result = "FINISHED"
          /\ Len(shapes) = Len(objects)
          /\ PackReturned
          /\ AABB_bool(pack_result.canvas_bounds)
          /\ Len(svg_groups) = Len(shapes)
    /\ error # "none" => ~file_opened

\* C5 witness: a run of two objects wrote its file.
C5_Witness ==
    file_opened /\ Len(objects) = 2 /\ op_result = "FINISHED"

\* Every traced shape has a width and a height of whole micrometres, as the
\* settings have: _mm_to_int() then cuts nothing off.
WholeMicrometres ==
    \A i \in 1..Len(shapes) :
        LET a == MeshBoundary_aabb(shapes[i])
        IN  AABB_bool(a) =>
                /\ AABB_width(a).v % 2 = 0
                /\ AABB_height(a).v % 2 = 0

\* Containment in the usable rectangle when _mm_to_int() cuts nothing off.
PlacedInsideUsable_WholeMicrometres ==
    WholeMicrometres => C1_PlacedInsideUsable

\* C9 as stated: every side of the transformed AABB of a placed shape is at
\* least shape_padding away from the same side of the usable rectangle of its
\* page.  Stated for the runs most favourable to it, those in which every
\* size is of whole micrometres.
C9_PaddingToUsableEdge ==
    (PackReturned /\ WholeMicrometres) =>
        \A i \in Placed :
            LET b == doc_box(shapes[i])
                u == usable(options, shapes[i].page_num)
                p == options.shape_padding
            IN  /\ b.min_x - u.min_x >= p /\ u.max_x - b.max_x >= p
                /\ b.min_y - u.min_y >= p /\ u.max_y - b.max_y >= p

\* C10 as stated: the transformed AABBs of two shapes placed on one page are
\* at least 2 * shape_padding apart along X or along Y.
C10_DoublePaddingBetweenShapes ==
    PackReturned =>
        \A i, j \in Placed :
            (i # j /\ shapes[i].page_num = shapes[j].page_num) =>
                LET a == doc_box(shapes[i])
                    b == doc_box(shapes[j])
                    p == options.shape_padding
                IN  \/ a.max_x + 2 * p <= b.min_x \/ b.max_x + 2 * p <= a.min_x
                    \/ a.max_y + 2 * p <= b.min_y \/ b.max_y + 2 * p <= a.min_y

\* The distance between shapes when _mm_to_int() cuts nothing off.
DoublePaddingBetweenShapes_WholeMicrometres ==
    WholeMicrometres => C10_DoublePaddingBetweenShapes

\* The rectangle of rect_list that carries shape i.
RectOf(i) == rect_list[CHOOSE m \in 1..Len(rect_list) : rect_list[m].rid = i]

\* The position _smart_pack() hands to transform_into() for shape i.
PositionOf(i) ==
    <<_int_to_mm(RectOf(i).x) + page_offset(options, RectOf(i).bin) + options.margin,
      _int_to_mm(RectOf(i).y) + options.margin>>

\* C11: when transform_into() selects rotation 90, the AABB of the shape
\* after the document transform (the stored translation, the rotation by 90
\* degrees, the Y flip of the output) has its minimum corner at the position
\* given to transform_into() and the size (aabb.height, aabb.width).
C11_RotatedLandsAtPosition ==
    PackReturned =>
        \A i \in Placed :
            shapes[i].rotation = 90 =>
                LET b == doc_box(shapes[i])
                    a == MeshBoundary_aabb(shapes[i])
                IN  /\ <<b.min_x, b.min_y>> = PositionOf(i)
                    /\ b.max_x - b.min_x = AABB_height(a).v
                    /\ b.max_y - b.min_y = AABB_width(a).v

\* C11 witness: a shape that is wider than high was turned and put away from
\* the origin of the document.
C11_Witness ==
    /\ PackReturned
    /\ \E i \in Placed :
          /\ shapes[i].rotation = 90
          /\ AABB_width(MeshBoundary_aabb(shapes[i])).v > AABB_height(MeshBoundary_aabb(shapes[i])).v
          /\ PositionOf(i)[1] > 0 /\ PositionOf(i)[2] > 0
          /\ <<doc_box(shapes[i]).min_x, doc_box(shapes[i]).min_y>> = PositionOf(i)

----------------------------------------------------------------------------
(* The rotation scenario, checked under SpecScenario.                       *)

\* pack() has returned for the 300 x 100 mm shape alone, rotation allowed, in
\* a usable area of 150 mm by the given length (in steps of 50 mm).
RotationScenario(usable_length) ==
    /\ PackReturned
    /\ Len(objects) = 1 /\ objects[1].flat = ScenarioWide.flat
    /\ options.pack_may_rotate
    /\ options.material_width - 2 * options.margin = 6
    /\ options.material_length - 2 * options.margin = 2 * usable_length

\* C12 as stated: the 300 x 100 mm shape, rotation allowed, usable area
\* 150 x 250 mm, has rotation 90 after pack() and a translation.y shifted by
\* its width before the turn.
C12_RotatedIn150x250 ==
    RotationScenario(5) =>
        /\ shapes[1].rotation = 90
        /\ shapes[1].translation[2] >= AABB_width(MeshBoundary_aabb(shapes[1])).v

\* C12 amended: in a usable area of 150 x 250 mm the shape fits neither way
\* round, is not placed and keeps rotation 0 and translation (0, 0), and
\* pack() returns a result without canvas; in a usable area of 150 x 350 mm
\* it is placed with rotation 90 and its translation is the position of its
\* rectangle with y shifted by the width before the turn (300 mm).
C12_RotatedIn150x350 ==
    /\ RotationScenario(5) =>
          /\ Placed = {}
          /\ Untouched(shapes[1])
          /\ ~PackResult_bool(pack_result)
    /\ RotationScenario(7) =>
          /\ Placed = {1}
          /\ shapes[1].rotation = 90
          /\ shapes[1].translation =
                <<PositionOf(1)[1],
                  PositionOf(1)[2] + AABB_width(MeshBoundary_aabb(shapes[1])).v>>
          /\ AABB_width(MeshBoundary_aabb(shapes[1])).v = 12

\* C12 witness: the shape was placed turned in the usable area of 150 x 350
\* mm, away from the lower edge.
C12_Witness ==
    /\ RotationScenario(7)
    /\ shapes[1].rotation = 90
    /\ PositionOf(1)[2] > 0
    /\ shapes[1].translation[2] = PositionOf(1)[2] + 12

----------------------------------------------------------------------------
(* Properties of FlattenedMesh, checked under SpecFlat.                      *)

\* The edges form a single cycle: each edge starts where the previous one
\* ends and the last edge ends where the first one starts.
SingleCycle(edges) ==
    /\ edges # <<>>
    /\ \A n \in 1..(Len(edges) - 1) : edges[n + 1].verts[1] = edges[n].verts[2]
    /\ edges[Len(edges)].verts[2] = edges[1].verts[1]

\* The cycle visits no point twice.
SimpleCycle(edges) ==
    /\ SingleCycle(edges)
    /\ \A a, b \in 1..Len(edges) : a # b => edges[a].verts[1] # edges[b].verts[1]

Distinct(s) == \A a, b \in 1..Len(s) : a # b => s[a] # s[b]

\* C6 as stated: for a mesh whose edges form a single cycle, is_closed is
\* true and iter_points() yields exactly len(edges) points, all distinct.
\* Stated here for the cycles most favourable to it, those that visit no
\* point twice; iter_points() still yields the seam point a second time.
C6_SeamNotRepeated ==
    (fm_pc = "points" /\ SimpleCycle(mesh)) =>
        /\ is_closed(mesh)
        /\ Len(points) = Len(mesh)
        /\ Distinct(points)

\* C6 amended: for a mesh whose edges form a single cycle, is_closed is true
\* and iter_points() yields len(edges) + 1 points: the start point of every
\* edge in order, then the seam point (the first point) once more.
C6_CycleYieldsSeamTwice ==
    (fm_pc = "points" /\ SingleCycle(mesh)) =>
        /\ is_closed(mesh)
        /\ Len(points) = Len(mesh) + 1
        /\ \A n \in 1..Len(mesh) : points[n] = mesh[n].verts[1]
        /\ points[Len(points)] = points[1]

\* C6 witness: iter_points() has run on a triangle.
C6_Witness ==
    /\ fm_pc = "points" /\ SimpleCycle(mesh) /\ Len(mesh) = 3
    /\ Len(points) = 4

Range(s) == {s[n] : n \in 1..Len(s)}

\* The chains of a split as a partition of the edge indices.
ChainPartition(pt) ==
    UNION {{Range(pt[t][j]) : j \in 1..Len(pt[t])} : t \in MeshType}

\* Edge b starts where edge a ends and has its type.
Continues(b, a) == a.edgeType = b.edgeType /\ a.verts[2] = b.verts[1]

LastOf(chain) == chain[Len(chain)]

\* C7 as stated: the chains of split(), concatenated again per type in any
\* order of the chains and split again, give the same partition of the
\* edges into chains.
C7_ResplitSamePartition ==
    fm_pc = "resplit" => ChainPartition(per_type2) = ChainPartition(per_type)

\* No edge of a chain continues the last edge of another chain of its type.
NoCrossContinuation ==
    \A t \in MeshType : \A a, b \in 1..Len(per_type[t]) :
        a # b => \A n \in 1..Len(per_type[t][b]) :
                    ~Continues(mesh[per_type[t][b][n]], mesh[LastOf(per_type[t][a])])

\* C7 amended: the re-split gives the same partition, in any order of the
\* chains, provided no edge of a chain continues the last edge of another
\* chain of the same type; otherwise the second split may merge or re-cut
\* chains.
C7_ResplitSamePartitionIfNoCross ==
    (fm_pc = "resplit" /\ NoCrossContinuation) =>
        ChainPartition(per_type2) = ChainPartition(per_type)

\* C7 witness: two chains of one type, one of them of two edges, were
\* concatenated in another order than split() listed them and split again.
C7_Witness ==
    /\ fm_pc = "resplit" /\ NoCrossContinuation
    /\ \E t \in MeshType :
          /\ Len(per_type[t]) = 2
          /\ \E j \in 1..2 : Len(per_type[t][j]) = 2
    /\ reorder # [n \in 1..Len(mesh) |-> n]
    /\ ChainPartition(per_type2) = ChainPartition(per_type)

\* C8 as stated: no two distinct chains A and B of a type are such that the
\* first edge of B follows the last edge of A.
C8_ChainsMaximal ==
    fm_pc = "split" =>
        \A t \in MeshType : \A a, b \in 1..Len(per_type[t]) :
            a # b => ~Continues(mesh[per_type[t][b][1]], mesh[LastOf(per_type[t][a])])

\* C8 amended: the chains are maximal with respect to the input order only:
\* no two distinct chains A and B of a type are such that the first edge of
\* B follows the last edge of A and comes after it in the edge list.  (An
\* edge that comes before the edge it continues opens a chain that is never
\* joined to it.)
C8_ChainsGreedyMaximal ==
    fm_pc = "split" =>
        \A t \in MeshType : \A a, b \in 1..Len(per_type[t]) :
            (a # b /\ per_type[t][b][1] > LastOf(per_type[t][a]))
                => ~Continues(mesh[per_type[t][b][1]], mesh[LastOf(per_type[t][a])])

\* C8 witness: split() returned two chains of one type, the first of two
\* edges, the second opened by an edge that comes later in the list.
C8_Witness ==
    /\ fm_pc = "split"
    /\ \E t \in MeshType :
          /\ Len(per_type[t]) = 2
          /\ Len(per_type[t][1]) = 2
          /\ per_type[t][2][1] > LastOf(per_type[t][1])


----------------------------------------------------------------------------
(* Properties of add_kerf, checked under SpecKerf.                           *)

\* add_kerf() has moved the vertices of a square: four sides of one length,
\* none of them a seam.
KerfedSquare ==
    /\ kf_pc = "displaced"
    /\ co0[1] # co0[2]
    /\ \A i \in 1..4 : ~bm.edges[i].seam

\* How far add_kerf() moved vertex v.
Displacement(v) == VSub(co[v], co0[v])

\* The sides of the square lie along the coordinate axes.
AxisAligned == co0[1][1] = co0[2][1] \/ co0[1][2] = co0[2][2]

\* C13 as stated: on a square in any orientation every corner moves by the
\* sum of the tangents of its two edges, clamped per axis, times W/2, and the
\* outline is the square offset by W/2 on every side: both ends of every edge
\* move by exactly W/2 along the outward normal of the edge.
C13_SquareOffsetByHalfWidth ==
    KerfedSquare =>
        /\ \A v \in 1..4 :
              LET es == link_edges(bm, v)
                  a  == CHOOSE i \in es : TRUE
                  b  == CHOOSE i \in es : i # a
                  d  == clamp_vector(VAdd(edge_kerfs[a][1], edge_kerfs[b][1]))
              IN  5 * Displacement(v)[1] = d[1] * kerf_width
                  /\ 5 * Displacement(v)[2] = d[2] * kerf_width
                  /\ Displacement(v)[3] = 0
        /\ \A i \in 1..4 : \A v \in EdgeSet(bm, i) :
              VDot(Displacement(v), edge_kerfs[i][1]) = 5 * kerf_width

\* The offset is W/2 on every side when the sides lie along the axes.
SquareOffsetByHalfWidth_AxisAligned ==
    AxisAligned => C13_SquareOffsetByHalfWidth

\* C14 as stated: an edge marked seam or sharp (smooth off) contributes no
\* tangent, and a vertex all of whose edges are seam or sharp is not moved.
C14_NoKerfForSeamOrSharp ==
    kf_pc \in {"tangents", "accumulated", "displaced"} =>
        /\ \A i \in 1..Len(bm.edges) :
              (bm.edges[i].seam \/ ~bm.edges[i].smooth) => edge_kerfs[i] = <<>>
        /\ kf_pc = "displaced" =>
              \A v \in 1..Len(co) :
                  (\A i \in link_edges(bm, v) : bm.edges[i].seam \/ ~bm.edges[i].smooth)
                      => co[v] = co0[v]

\* Only a seam keeps an edge without tangent: sharp edges that are no seams
\* get theirs.
NoKerfForSeam ==
    kf_pc \in {"tangents", "accumulated", "displaced"} =>
        \A i \in 1..Len(bm.edges) :
            (edge_kerfs[i] = <<>>) <=> (bm.edges[i].seam \/ ~is_boundary(bm, i))


----------------------------------------------------------------------------
(* AABB.join *)

\* The four corner points of a box, taken from the first end of each side of
\* boundary().
corner_points(a) == [n \in 1..4 |-> AABB_boundary(a)[n][1]]

\* A fresh AABB extended by the corner points of a and then of b.
corners_aabb(a, b) ==
    AABB_extend_upto(AABB_extend_upto(AABB_default, corner_points(a), 4),
                     corner_points(b), 4)

Joined == aabb_in # <<>> /\ aabb_out # <<>>

\* C15 as stated: for all AABBs A and B, the default box included, A.join(B)
\* leaves A equal to a fresh AABB extended by the four corner points of A and
\* the four corner points of B.
C15_JoinIsCornerBox ==
    Joined => aabb_out[1] = corners_aabb(aabb_in[1], aabb_in[2])

\* C15 amended: the equality holds when neither box is the default box; the
\* default box joins as the neutral element (A.join(default) leaves A as it
\* was, default.join(B) leaves it equal to B), while its four corner points
\* carry both infinities on both axes.
C15_JoinIsCornerBoxUnlessDefault ==
    Joined =>
        LET A == aabb_in[1]
            B == aabb_in[2]
        IN  /\ (A # AABB_default /\ B # AABB_default) => aabb_out[1] = corners_aabb(A, B)
            /\ B = AABB_default => aabb_out[1] = A
            /\ A = AABB_default => aabb_out[1] = B
            /\ (A = AABB_default \/ B = AABB_default) =>
                   corners_aabb(A, B) = AABB(NegInf, NegInf, PosInf, PosInf)

\* Two boxes, neither inside the other, have been joined.
C15_Witness ==
    /\ Joined
    /\ aabb_in[1] \in ExtendedBoxes /\ aabb_in[2] \in ExtendedBoxes
    /\ aabb_out[1] # aabb_in[1] /\ aabb_out[1] # aabb_in[2]

----------------------------------------------------------------------------
(* Tracing the export edges *)

\* The generator has run to its end.
Traced == tr_pc \in {"traced", "flattened", "done"}

\* The export edges of the mesh: boundary edges and wire edges.
ExportEdges == {i \in 1..Len(bm.edges) : is_boundary(bm, i) \/ is_wire(bm, i)}

\* The number of places where edge i stands in the yielded meshes.
RECURSIVE occurrences(_, _)
occurrences(i, k) ==
    IF k = 0 THEN 0
    ELSE occurrences(i, k - 1)
         + Cardinality({n \in 1..Len(yielded[k]) : yielded[k][n].index = i})

\* C16: _boundary_polygons_from_bmesh terminates: every iteration of the
\* outer loop and every step of the inner walk removes at least one index
\* from export_edge_indices, and the generator finishes exactly when that set
\* is empty.
C16_TracingTerminates ==
    /\ <>Traced
    /\ [][((tr_pc = "outer" /\ tr_pc' = "walk") \/ (tr_pc = "walk" /\ tr_pc' = "walk"))
            => (export_edge_indices' \subseteq export_edge_indices
                /\ export_edge_indices' # export_edge_indices)]_vars
    /\ [][tr_pc = "outer" => (tr_pc' = "traced" <=> export_edge_indices = {})]_vars
    /\ [](Traced => export_edge_indices = {})

\* The generator has finished after an outer iteration that walked on from
\* its first edge and another outer iteration.
C16_Witness ==
    /\ Traced
    /\ Len(yielded) >= 2
    /\ \E k \in 1..Len(yielded) : Len(yielded[k]) >= 2

\* C17: tracing partitions the export edges: every export edge stands exactly
\* once in exactly one yielded mesh, no other edge stands in any, and no
\* yielded mesh is empty.
C17_TracePartitionsExportEdges ==
    LET export == ExportEdges
    IN  /\ \A k \in 1..Len(yielded) : yielded[k] # <<>>
        /\ \A i \in 1..Len(bm.edges) :
              LET times == occurrences(i, Len(yielded))
              IN  /\ i \notin export => times = 0
                  /\ times <= 1
                  /\ (Traced /\ i \in export) => times = 1

\* A mesh with an edge that is not exported has been traced into more than
\* one mesh.
C17_Witness ==
    /\ Traced
    /\ Len(yielded) >= 2
    /\ ExportEdges # 1..Len(bm.edges)

\* The edges of a chain run head to tail, as coordinates and as vertices, and
\* every edge runs between the two vertices of the edge of the mesh it is.
head_to_tail(m) ==
    /\ \A n \in 1..Len(m) : {m[n].ends[1], m[n].ends[2]} = EdgeSet(bm, m[n].index)
    /\ \A n \in 1..Len(m) : m[n].verts = <<co[m[n].ends[1]], co[m[n].ends[2]]>>
    /\ \A n \in 1..(Len(m) - 1) :
          /\ m[n].verts[2] = m[n + 1].verts[1]
          /\ m[n].ends[2] = m[n + 1].ends[1]

\* C18: the edges of every yielded AnnotatedMesh are connected head to tail,
\* whatever the order in which the mesh stores the two vertices of an edge.
C18_ChainsHeadToTail ==
    /\ head_to_tail(annotated_mesh)
    /\ \A k \in 1..Len(yielded) : head_to_tail(yielded[k])

\* A yielded mesh goes on with an edge that the mesh stores the other way
\* round.
C18_Witness ==
    \E k \in 1..Len(yielded) : \E n \in 2..Len(yielded[k]) :
        yielded[k][n].ends # bm.edges[yielded[k][n].index].verts

\* The number of edges of the set export at a vertex.
export_degree(export, v) == Cardinality(link_edges(bm, v) \cap export)

\* The vertices joined to those of S by at most n edges of the set export.
RECURSIVE connected_upto(_, _, _)
connected_upto(export, S, n) ==
    IF n = 0 THEN S
    ELSE connected_upto(
             export,
             S \cup {w \in 1..Len(co) :
                        \E i \in export : \E u \in S : EdgeSet(bm, i) = {u, w}},
             n - 1)

\* The vertices of the component of the edges of export that v is in.
component(export, v) == connected_upto(export, {v}, Len(co))

\* Every yielded mesh that lies on an open path of the edges of export is
\* that whole path, from one end to the other.
OpenPathsNotSplit(export) ==
    \A k \in 1..Len(yielded) :
        LET m     == yielded[k]
            first == m[1].ends[1]
            last  == m[Len(m)].ends[2]
            comp  == component(export, first)
        IN  (\E w \in comp : export_degree(export, w) = 1) =>
               /\ export_degree(export, first) = 1
               /\ export_degree(export, last) = 1
               /\ {m[n].index : n \in 1..Len(m)}
                     = {i \in export : EdgeSet(bm, i) \subseteq comp}

\* C19: in a mesh whose export edges meet at most two at a vertex, every
\* open path is yielded as one AnnotatedMesh from endpoint to endpoint and
\* never split.
C19_OpenPathsNotSplit ==
    Traced =>
        LET export == ExportEdges
        IN  (\A v \in 1..Len(co) : export_degree(export, v) <= 2)
                => OpenPathsNotSplit(export)

\* The same where the ends of the open paths carry no other edge.
OpenPathsNotSplit_FreeEnds ==
    Traced =>
        LET export == ExportEdges
        IN  (/\ \A v \in 1..Len(co) : export_degree(export, v) <= 2
             /\ \A v \in 1..Len(co) :
                   export_degree(export, v) = 1 => Cardinality(link_edges(bm, v)) = 1)
                => OpenPathsNotSplit(export)

\* The export edges are one simple closed loop of one type.
SingleLoop ==
    LET export == ExportEdges
    IN  /\ export # {}
        /\ \A v \in 1..Len(co) : export_degree(export, v) \in {0, 2}
        /\ \E i \in export :
              LET comp == component(export, bm.edges[i].verts[1])
              IN  \A j \in export :
                     /\ EdgeSet(bm, j) \subseteq comp
                     /\ for_edge(bm.edges[i]) = for_edge(bm.edges[j])

\* C20: a mesh whose export edges are one simple closed loop of one type
\* gives exactly one chain with all its edges, is_closed is true of it and
\* _write_shape() writes a polygon, whichever edge is popped first.
C20_LoopIsOnePolygon ==
    (tr_pc = "done" /\ SingleLoop) =>
        /\ Len(yielded) = 1
        /\ \E t \in MeshType :
              /\ Len(polygons[t]) = 1
              /\ Len(polygons[t][1]) = Cardinality(ExportEdges)
              /\ is_closed(polygons[t][1])
              /\ svg_elements[t] = <<"polygon">>
              /\ \A o \in MeshType \ {t} : polygons[o] = <<>> /\ svg_elements[o] = <<>>

\* A loop of four edges around two faces has been written, traced from an
\* edge that is not the first of the mesh.
C20_Witness ==
    /\ tr_pc = "done" /\ SingleLoop
    /\ Len(bm.faces) = 2
    /\ yielded[1][1].index # 1

----------------------------------------------------------------------------
(* FlattenedMesh.split as a partition *)

\* The places <<t, j, n>> of the split where edge i stands.
places(pt, i) ==
    {q \in MeshType \X (1..Len(mesh)) \X (1..Len(mesh)) :
        /\ q[2] <= Len(pt[q[1]])
        /\ q[3] <= Len(pt[q[1]][q[2]])
        /\ pt[q[1]][q[2]][q[3]] = i}

\* C21: split() partitions its input: every edge stands in exactly one chain,
\* under the key of its own type; no chain is empty; every chain keeps the
\* order of the input; within every chain each edge follows the one before
\* (same type, the end of the one is the start of the other).
C21_SplitPartitions ==
    fm_pc = "split" =>
        /\ \A i \in 1..Len(mesh) :
              /\ Cardinality(places(per_type, i)) = 1
              /\ \A q \in places(per_type, i) : q[1] = mesh[i].edgeType
        /\ \A t \in MeshType : \A j \in 1..Len(per_type[t]) :
              LET chain == per_type[t][j]
              IN  /\ chain # <<>>
                  /\ \A n \in 1..(Len(chain) - 1) :
                        /\ chain[n] < chain[n + 1]
                        /\ Continues(mesh[chain[n + 1]], mesh[chain[n]])

\* A mesh was split into a chain of two edges and another chain, and the
\* edges of the longer chain were not next to each other in the input.
C21_Witness ==
    /\ fm_pc = "split"
    /\ \E t \in MeshType : \E j \in 1..Len(per_type[t]) :
          /\ Len(per_type[t][j]) = 2
          /\ per_type[t][j][2] # per_type[t][j][1] + 1

----------------------------------------------------------------------------
(* add_kerf: one tangent per edge, two passes, clamping *)

\* C22 as stated: in add_kerf, for every mesh, every edge that receives a
\* tangent receives exactly one, so the assertion len(kerfs) == 1 never
\* fails.
C22_OneTangentPerEdge ==
    /\ kf_pc # "AssertionError"
    /\ \A i \in DOMAIN edge_kerfs : Len(edge_kerfs[i]) <= 1

\* The same for meshes in which no edge has more than two faces.
OneTangentPerEdge_TwoFaces ==
    (\A i \in 1..Len(bm.edges) : edge_faces(bm, i) <= 2) => C22_OneTangentPerEdge

\* The tangents of the first pass computed from the coordinates coords.
tangents_from(coords) ==
    LET ls == loops_in_order(bm, kerf_loops(bm))
    IN  collect_kerfs(bm, coords, ls, Len(ls))

\* C23: add_kerf is two-pass: no vertex coordinate is modified until the
\* tangent of every qualifying edge has been computed, so every tangent is
\* computed from the original positions, and when MeshAnalysisError is
\* raised for a tangent that is not of unit length no vertex has been
\* displaced.
C23_TwoPass ==
    /\ kf_pc \in {"start", "tangents", "accumulated", "MeshAnalysisError", "AssertionError"}
          => co = co0
    /\ kf_pc \in {"tangents", "accumulated", "displaced"}
          => edge_kerfs = tangents_from(co0)

\* MeshAnalysisError was raised with a laser width above zero after the
\* tangent of an edge had been computed.
C23_Witness ==
    /\ kf_pc = "MeshAnalysisError"
    /\ kerf_width > 0
    /\ \E i \in DOMAIN edge_kerfs : edge_kerfs[i] # <<>>

\* The edges at vertex v that have a tangent.
kerfed_edges(v) == {i \in link_edges(bm, v) : edge_kerfs[i] # <<>>}

\* Vertex v has two edges with a tangent, and the two tangents are the same.
TwiceSameTangent(v) ==
    /\ Cardinality(kerfed_edges(v)) = 2
    /\ \A a, b \in kerfed_edges(v) : edge_kerfs[a][1] = edge_kerfs[b][1]

Abs(n) == IF n < 0 THEN -n ELSE n

\* C24 as stated: a vertex whose two qualifying edges have the same unit
\* tangent t is displaced by t * laser_width/2, as if a single such edge
\* touched it, and no vertex is displaced by more than laser_width/2 along
\* any coordinate axis.
C24_ClampPreventsDoubleKerf ==
    kf_pc = "displaced" =>
        \A v \in 1..Len(co) :
            /\ \A k \in 1..3 : Abs(Displacement(v)[k]) <= kerf_width
            /\ TwiceSameTangent(v) =>
                  \A i \in kerfed_edges(v) : \A k \in 1..3 :
                      5 * Displacement(v)[k] = edge_kerfs[i][1][k] * kerf_width

\* The same for tangents along a coordinate axis.
ClampPreventsDoubleKerf_AlongAxes ==
    kf_pc = "displaced" =>
        \A v \in 1..Len(co) :
            /\ \A k \in 1..3 : Abs(Displacement(v)[k]) <= kerf_width
            /\ (/\ TwiceSameTangent(v)
                /\ \A i \in kerfed_edges(v) :
                      Cardinality({k \in 1..3 : edge_kerfs[i][1][k] # 0}) = 1) =>
                  \A i \in kerfed_edges(v) : \A k \in 1..3 :
                      5 * Displacement(v)[k] = edge_kerfs[i][1][k] * kerf_width

----------------------------------------------------------------------------
(* Pages and page layers, checked under Spec.                                *)

\* The document is assembled: every _write_shape() call of write() is done.
Assembled == pc = "assembled" \/ op_result = "FINISHED"

\* C25: after pack(), num_pages is 1 plus the largest page index of a placed
\* shape, every shape of the list, placed or not, has 0 <= page_num <
\* num_pages, so page_layers[shape.page_num] raises no IndexError, and the
\* assembled document holds every shape in exactly one page layer.
C25_PageNumInRange ==
    PackReturned =>
        /\ Placed # {} =>
              pack_result.num_pages = 1 + SetMax({shapes[i].page_num : i \in Placed})
        /\ \A i \in 1..Len(shapes) :
              0 <= shapes[i].page_num /\ shapes[i].page_num < pack_result.num_pages
        /\ error # "IndexError"
        /\ Assembled =>
              \A i \in 1..Len(shapes) :
                  /\ Cardinality({g \in 1..Len(svg_groups) :
                                     svg_groups[g].id = shapes[i].name}) = 1
                  /\ \A g \in 1..Len(svg_groups) :
                        svg_groups[g].id = shapes[i].name =>
                            svg_groups[g].layer \in 0..(pack_result.num_pages - 1)

\* A document of two pages is assembled, with a shape on each page.
C25_Witness ==
    /\ Assembled
    /\ pack_result.num_pages = 2
    /\ \E i, j \in Placed : shapes[i].page_num = 0 /\ shapes[j].page_num = 1

\* What pack() and the document assembler may not change: the name, the
\* polygons and the value of the aabb property.
ShapeValue(shape) ==
    [name |-> shape.name, polygons |-> shape.polygons, aabb |-> MeshBoundary_aabb(shape)]

\* The aabb property computed anew from the polygons.
aabb_uncached(shape) ==
    MeshBoundary_aabb([shape EXCEPT !.aabb_cache = [cached |-> FALSE, box |-> AABB_default]])

\* C26: pack() changes only rotation, translation and page_num: from
\* _collect_shapes() on no step changes the name, the polygons or the value
\* of the aabb of a shape, the aabb property returns the same value on every
\* access (the cached box is the box of the polygons), and once pack() has
\* returned the document assembler changes no field of any shape.
C26_PackChangesPlacementOnly ==
    /\ [](\A i \in 1..Len(shapes) : MeshBoundary_aabb(shapes[i]) = aabb_uncached(shapes[i]))
    /\ [][(pc # "start") =>
            /\ Len(shapes') = Len(shapes)
            /\ \A i \in 1..Len(shapes) : ShapeValue(shapes'[i]) = ShapeValue(shapes[i])]_vars
    /\ [][(pc \in {"packed", "assembled"}) => (shapes' = shapes)]_vars

\* The document is assembled from a shape that pack() moved and turned.
C26_Witness ==
    /\ Assembled
    /\ \E i \in Placed :
          /\ shapes[i].rotation = 90 /\ shapes[i].translation # <<0, 0>>
          /\ shapes[i].aabb_cache.cached

\* C27 as stated: when pack_may_rotate is False, every shape has rotation 0
\* after pack(), whatever the padding and the margin.
C27_NoRotationWhenDisabled ==
    (PackReturned /\ ~options.pack_may_rotate) =>
        \A i \in 1..Len(shapes) : shapes[i].rotation = 0

\* The same for shapes whose width and height are whole micrometres, which
\* _mm_to_int() converts without loss.
NoRotationWhenDisabled_WholeMicrometres ==
    (PackReturned /\ ~options.pack_may_rotate /\ WholeMicrometres) =>
        \A i \in 1..Len(shapes) : shapes[i].rotation = 0

\* The shapes the packer left out of rect_list().
Unplaced == (1..Len(shapes)) \ Placed

\* C28: a shape the packer does not place keeps rotation 0, translation
\* (0, 0) and page_num 0; when another shape was placed the run raises no
\* error, the document has exactly one group per shape of the list, the
\* group of the unplaced shape is in the first page layer with the identity
\* transform, and the shape table, when written, has one row for it.
C28_UnplacedStillWritten ==
    PackReturned =>
        /\ \A i \in Unplaced : Untouched(shapes[i])
        /\ Placed # {} =>
              /\ error = "none"
              /\ pc = "done" => op_result = "FINISHED"
              /\ Assembled =>
                    /\ Len(svg_groups) = Len(shapes)
                    /\ \A i \in 1..Len(shapes) :
                          Cardinality({g \in 1..Len(svg_groups) :
                                          svg_groups[g].id = shapes[i].name}) = 1
                    /\ \A i \in Unplaced : \A g \in 1..Len(svg_groups) :
                          svg_groups[g].id = shapes[i].name =>
                              /\ svg_groups[g].layer = 0
                              /\ svg_groups[g].translate = <<0, 0>>
                              /\ svg_groups[g].rotate = 0
                    /\ svg_table.written =>
                          \A i \in Unplaced :
                              Cardinality({r \in 1..Len(svg_table.rows) :
                                              svg_table.rows[r].name = shapes[i].name}) = 1

\* A document with its shape table is assembled from one shape that was
\* placed and one that fits no page.
C28_Witness ==
    /\ Assembled /\ svg_table.written
    /\ Placed # {} /\ Unplaced # {}

----------------------------------------------------------------------------
(* The start edges of the tracing, checked under SpecTrace.                  *)

\* C29: at the head of every iteration of the outer loop of
\* _boundary_polygons_from_bmesh() the start edges are export edges still to
\* trace, so export_edge_indices.remove() of a popped start edge never
\* raises KeyError.
C29_StartEdgesAreExportEdges ==
    /\ tr_pc = "outer" => start_edge_indices \subseteq export_edge_indices
    /\ tr_pc # "KeyError"

\* The outer loop is about to start another chain after a walk ended on an
\* edge that was a start edge itself.
C29_Witness ==
    /\ tr_pc = "outer" /\ export_edge_indices # {}
    /\ \E c \in 1..Len(yielded) :
          /\ Len(yielded[c]) >= 2
          /\ yielded[c][Len(yielded[c])].index \in _find_start_edge_indices(bm, co)

----------------------------------------------------------------------------
(* Solidify modifiers, checked under SpecSolidify.                           *)

\* The objects _collect_shapes() is done with: those before the current one,
\* and the current one once its finally clause has run.
Processed == 1..(IF pc \in {"collect", "collected", "done"}
                 THEN (IF error = "none" THEN Len(shapes) ELSE Len(shapes) + 1)
                 ELSE current - 1)

\* C30: once _collect_shapes() has processed an object, whether
\* flatten_mesh() returned or raised, every modifier of the object has the
\* show_viewport value it had when the export started, and while
\* flatten_mesh() runs every SOLIDIFY modifier of the object is hidden.
C30_SolidifyRestored ==
    /\ \A i \in Processed : modifiers[i] = modifiers0[i]
    /\ pc = "with" =>
          \A k \in _solidify_modifiers(modifiers[current]) :
              ~modifiers[current][k].show_viewport

\* flatten_mesh() raised for an object with one Solidify modifier shown and
\* one hidden, and the exception has left _collect_shapes().
C30_Witness ==
    /\ pc = "done" /\ error = "MeshAnalysisError"
    /\ \E i \in Processed : \E k, l \in _solidify_modifiers(modifiers0[i]) :
          modifiers0[i][k].show_viewport /\ ~modifiers0[i][l].show_viewport

====
